---- MODULE Spec2Model ----
(***************************************************************************)
(* Concurrent configuration persistence of cli/config.py: the FileLock     *)
(* sidecar lock (acquire / _is_stale_lock / release), the atomic writer    *)
(* (_save_to_file) and JsonConfigProvider.save, run by several OS          *)
(* processes on one config path.                                           *)
(*                                                                         *)
(* Every step of a process is one system call (or a run of purely local    *)
(* statements) of the source; steps of different processes interleave      *)
(* freely.  Time is kept as clocks relative to the instants the code       *)
(* compares against: the age of a lock file (time.time() - mtime), the     *)
(* time since acquire() read start_time, and the rest of a time.sleep().   *)
(* Each clock saturates just above the largest value the code can tell     *)
(* apart, so the state space is finite without a horizon.                  *)
(***************************************************************************)
EXTENDS Integers, Sequences, FiniteSets, TLC

\* ---------------------------------------------------------------- bounds
\* FileLock.timeout, the poll_interval of acquire() and FileLock.stale_timeout,
\* in clock ticks.  Timeout is no multiple of PollInterval, so that a sleep
\* can straddle the deadline.
Timeout == 3
PollInterval == 2
StaleTimeout == 1

\* How many save() calls the processes make in total.
MaxSaves == 3

ElapsedCap == Timeout + 1
AgeCap == StaleTimeout + 1

\* ------------------------------------------------------------- processes
\* Three processes; os.getpid() of process p is p.  Processes 1 and 2 run as
\* the same user; process 3 runs as that user too, or as another one.  No
\* process is root.  The directory of the config file lets every one of them
\* create and unlink entries (it is not sticky).
Procs == {1, 2, 3}
Uids == {1, 2}

\* ------------------------------------------------------------- documents
\* A document (a JSON object) is the set of its leaves <<path, value>>: the
\* path is the sequence of keys from the root, the value a scalar or "{}"
\* for an empty mapping.  {"a": {"x": "0"}} is {<< <<"a", "x">>, "0" >>}.
TopKeys(d) == {l[1][1] : l \in d}
Entry(d, k) == {l \in d : l[1][1] = k}

\* isinstance(d[k], dict)
IsDict(d, k) == \E l \in Entry(d, k) : Len(l[1]) > 1 \/ l[2] = "{}"

\* d[k], a mapping, as a document of its own; and back: {k: sub}.
Sub(d, k) == {<<Tail(l[1]), l[2]>> : l \in {x \in Entry(d, k) : Len(x[1]) > 1}}
\* A {k: sub} that leaves the key out when sub is empty.
WrapDropEmpty(k, sub) == {<< <<k>> \o l[1], l[2] >> : l \in sub}

Wrap(k, sub) ==
    IF sub = {} THEN {<< <<k>>, "{}" >>}
    ELSE {<< <<k>> \o l[1], l[2] >> : l \in sub}

\* deep_merge(base, updates): keys that are mappings on both sides are merged
\* recursively, any other key of updates replaces the one of base.
\* A merge of the top level only (dict.update): every key of updates
\* replaces the one of base.
shallow_merge(base, updates) ==
    {l \in base : l[1][1] \notin TopKeys(updates)} \cup updates

RECURSIVE deep_merge(_, _)
deep_merge(base, updates) ==
    UNION {IF k \notin TopKeys(updates) THEN Entry(base, k)
           ELSE IF k \in TopKeys(base) /\ IsDict(base, k) /\ IsDict(updates, k)
                THEN Wrap(k, deep_merge(Sub(base, k), Sub(updates, k)))
                ELSE Entry(updates, k)
           : k \in TopKeys(base) \cup TopKeys(updates)}

\* A value handed to set(): a scalar v is the leaf <<<<>>, v>>, a mapping is
\* the set of its leaves.
Scalar(v) == {<< <<>>, v >>}
IsPrefix(a, b) == Len(a) <= Len(b) /\ SubSeq(b, 1, Len(a)) = a
Put(key, value) ==
    IF value = {} THEN {<< key, "{}" >>} ELSE {<< key \o l[1], l[2] >> : l \in value}

\* A set() that keeps what was under the key and on the way to it.
setKeep(d, key, value) == d \cup Put(key, value)

\* A set() that gives up, leaving the document alone, when a scalar is in
\* the way of the key.
setStrict(d, key, value) ==
    IF \E l \in d : Len(l[1]) < Len(key) /\ IsPrefix(l[1], key) /\ l[2] # "{}"
    THEN d
    ELSE {l \in d : ~IsPrefix(key, l[1]) /\ ~IsPrefix(l[1], key)} \cup Put(key, value)

\* set(key, value): the dicts along key are created (a scalar in the way is
\* replaced by a dict), and whatever was at key is replaced by value.
set(d, key, value) ==
    {l \in d : ~IsPrefix(key, l[1]) /\ ~IsPrefix(l[1], key)} \cup Put(key, value)

get_all(d) == d

\* What a dict holds under key k: a mapping (the set of its leaves, {} if it
\* is empty) or a scalar.
ValueAt(d, k) ==
    IF IsDict(d, k) THEN Sub(d, k)
    ELSE Scalar((CHOOSE l \in Entry(d, k) : TRUE)[2])

\* A get() that indexes without testing: a missing segment is a KeyError.
RECURSIVE getUnchecked(_, _, _)
getUnchecked(d, key, default) ==
    IF Head(key) \notin TopKeys(d) THEN Scalar("KeyError")
    ELSE IF Len(key) = 1 THEN ValueAt(d, Head(key))
    ELSE IF ~IsDict(d, Head(key)) THEN Scalar("KeyError")
    ELSE getUnchecked(Sub(d, Head(key)), Tail(key), default)

\* get(key, default): walk parts[:-1], giving up with default at a missing
\* segment or a non-dict; then dict.get(parts[-1], default).
RECURSIVE get(_, _, _)
get(d, key, default) ==
    IF Len(key) = 1
    THEN IF Head(key) \in TopKeys(d) THEN ValueAt(d, Head(key)) ELSE default
    ELSE IF Head(key) \notin TopKeys(d) \/ ~IsDict(d, Head(key)) THEN default
    ELSE get(Sub(d, Head(key)), Tail(key), default)

\* jsonschema.validate against the schema the providers are constructed
\* with: no value may be "bad".
SchemaValid(d) == \A l \in d : l[2] # "bad"

\* Documents: D0 is on disk at the start; provider p is constructed with
\* defaults of its own, so that its in-memory document DocOf[p] (the deep
\* merge of its defaults and D0) differs from every other one.
Tok == <<"1", "2", "3">>
D0 == {<< <<"a", "x">>, "0" >>}
Defaults(p) == {<< <<"a", "x">>, Tok[p] >>, << <<"a", "y">>, Tok[p] >>}
DocOf == [p \in Procs |-> deep_merge(Defaults(p), D0)]
Leaves == {<< path, v >> : path \in {<<"a">>, <<"a", "x">>, <<"a", "y">>,
                                      <<"b">>, <<"b", "x">>, <<"b", "y">>},
                            v \in {"0", "1", "2", "3", "bad", "{}"}}
Docs == SUBSET Leaves

\* The default documents a constructor is given: none, one the schema
\* accepts, one it rejects.
BadDefaults(p) == {<< <<"a", "x">>, Tok[p] >>, << <<"a", "y">>, "bad" >>}
DefaultDocs(p) == {{}, Defaults(p), BadDefaults(p)}

\* The arguments of set() and update() that are tried.
MaxDepth == 2
SetKeys == {<<"a">>, <<"a", "x">>, <<"a", "y">>}
SetValues == {Scalar("0"), Scalar("bad"), {}, {<< <<"x">>, "0" >>},
              {<< <<"x">>, "2" >>, << <<"y">>, "0" >>}}
GetKeys == SetKeys \cup {<<"b">>, <<"b", "x">>, <<"a", "z">>}
Updates == {{<< <<"a", "x">>, "3" >>}, {<< <<"a", "y">>, "0" >>},
            {<< <<"a">>, "{}" >>}, {<< <<"a">>, "0" >>}, {<< <<"a", "x">>, "bad" >>}}

\* The documents deep_merge is tried on: under each of the keys "a" and "b"
\* nothing, a scalar, or a mapping (empty, of scalars, or holding an empty
\* mapping).
MergeSubs == {{}, {<< <<"x">>, "0" >>}, {<< <<"x">>, "1" >>}, {<< <<"y">>, "0" >>},
              {<< <<"x">>, "0" >>, << <<"y">>, "1" >>}, {<< <<"x">>, "{}" >>}}
EntriesFor(k) ==
    {{}} \cup {{<< <<k>>, v >>} : v \in {"0", "bad"}} \cup {Wrap(k, sub) : sub \in MergeSubs}
MergeDocs == {ea \cup eb : ea \in EntriesFor("a"), eb \in EntriesFor("b")}

\* ------------------------------------------------------------ file system
NoIno == 0
Inos == 1..(Cardinality(Procs) + 1)

\* A lock file (an inode): owner uid (mode 0o600), body (<<>> until the
\* creator has written <<pid, uid>>), age since its mtime, and the process
\* whose open file description holds the flock (0: nobody).
BlankInode == [owner |-> 0, body |-> <<>>, age |-> 0, flock |-> 0]

CfgPath == 0

\* A writer that dumps straight into the config file.
InPlacePath(p) == CfgPath

\* A writer that uses one fixed temp name for every process.
SharedTempPath(p) == 1

\* tempfile.mkstemp(dir=<directory of the config file>): a fresh name beside
\* the config file, private to the call.
TempPath(p) == p
\* <config_path>.corrupt.<int(time.time())> of recoveries that fall within
\* one second.
BackupPath == Cardinality(Procs) + 1
Paths == {CfgPath, BackupPath} \cup {TempPath(p) : p \in Procs}
Absent == [doc |-> {}, bytes |-> "absent"]
NoSnapshot == [held |-> FALSE, doc |-> {}, share |-> "none"]

\* A config file that is not JSON, and one that is JSON but violates the
\* schema.
Corrupt == [doc |-> {}, bytes |-> "invalid"]
BadDoc == {<< <<"a", "x">>, "bad" >>}

VARIABLES
    snap,       \* snap[p]: the value get_all() last returned to the caller of
                \* provider p, and what it shares with the provider's document
    uid,        \* uid[p]: os.getuid() of process p
    op,         \* op[p]: "none" (no provider constructed), or what the
                \* provider of p runs or ran last: "load" (__init__) or "save"
    seen,       \* seen[p]: the file content p's _load read and rejected
    alive,      \* alive[p]: the process has not crashed
    pc,         \* pc[p]: position of p in save() / acquire() / release()
    is_locked,  \* FileLock.is_locked of p's lock object
    lock_file,  \* FileLock.lock_file: inode p holds open 'r+' (NoIno: None)
    fd,         \* the O_WRONLY descriptor of os.open in acquire (NoIno: none)
    lock_file_created_by_us,
    elapsed,    \* time.time() - start_time of p's running acquire()
    sleep,      \* what is left of p's time.sleep(poll_interval)
    exc,        \* exception in flight in p's save() while the lock is released
    lockPath,   \* inode linked at <config_path>.lock (NoIno: no such file)
    inode,      \* inode[i]: the lock files, linked or unlinked-but-open
    files,      \* files[path]: the config file and the mkstemp files
    config,     \* JsonConfigProvider._config of p
    calls,      \* save() calls made so far
    \* Observers (no statement of the program reads them):
    blockedBy,  \* blockedBy[p]: the live holders p's running save() found when
                \* it was called and that have not released since
    judgedDead  \* judgedDead[p]: p's running acquire() has met a lock file
                \* older than stale_timeout naming a dead pid and p's own uid

vars == <<snap, uid, op, seen, alive, pc, is_locked, lock_file, fd, lock_file_created_by_us,
          elapsed, sleep, exc, lockPath, inode, files, config, calls,
          blockedBy, judgedDead>>

lockObj == <<is_locked, lock_file, fd, lock_file_created_by_us>>
clocks == <<elapsed, sleep>>
lockFs == <<lockPath, inode>>
docVars == <<files, config, calls>>
obs == <<blockedBy, judgedDead>>

AcquirePcs == {"a_loop", "a_stale1", "a_rm1", "a_create", "a_write", "a_stale2",
               "a_rm2", "a_open", "a_flock", "a_rm3", "a_sleep", "a_exc"}
WritePcs == {"s_mkstemp", "s_flush", "s_replace"}
ReleasePcs == {"r_unlock", "r_remove"}
HandlerPcs == {"s_except_lock", "s_except_io"}
LoadPcs == {"c_load", "l_read", "l_fallback", "l_except_io", "l_recover", "l_end"}
AllPcs == {"idle", "dead", "held", "released"} \cup AcquirePcs \cup WritePcs \cup ReleasePcs \cup HandlerPcs
              \cup LoadPcs
Excs == {"none", "ConfigIOError", "ConfigValidationError", "JSONDecodeError", "IOError",
         "ConfigError"}

Min(a, b) == IF a < b THEN a ELSE b

\* An inode nobody links or holds open is gone.
Referenced(i, lp, fds, lfs) ==
    lp = i \/ \E p \in Procs : fds[p] = i \/ lfs[p] = i

Gc(ino, lp, fds, lfs) ==
    [i \in Inos |-> IF Referenced(i, lp, fds, lfs) THEN ino[i] ELSE BlankInode]

FreeIno == CHOOSE i \in Inos :
              /\ ~Referenced(i, lockPath, fd, lock_file)
              /\ \A j \in Inos : ~Referenced(j, lockPath, fd, lock_file) => i <= j

TypeOK ==
    /\ \A p \in Procs : /\ snap[p].held \in BOOLEAN
                        /\ snap[p].doc \in Docs
                        /\ snap[p].share \in {"none", "nested", "all"}
    /\ uid \in [Procs -> Uids]
    /\ op \in [Procs -> {"none", "init", "load", "save", "lock"}]
    /\ \A p \in Procs : seen[p].bytes \in {"absent", "complete", "invalid"}
    /\ alive \in [Procs -> BOOLEAN]
    /\ pc \in [Procs -> AllPcs]
    /\ is_locked \in [Procs -> BOOLEAN]
    /\ lock_file \in [Procs -> Inos \cup {NoIno}]
    /\ fd \in [Procs -> Inos \cup {NoIno}]
    /\ lock_file_created_by_us \in [Procs -> BOOLEAN]
    /\ elapsed \in [Procs -> 0..ElapsedCap]
    /\ sleep \in [Procs -> 0..PollInterval]
    /\ exc \in [Procs -> Excs]
    /\ lockPath \in Inos \cup {NoIno}
    /\ \A i \in Inos : /\ inode[i].owner \in {0} \cup Uids
                       /\ inode[i].age \in 0..AgeCap
                       /\ inode[i].flock \in {0} \cup Procs
    /\ \A x \in Paths : files[x].bytes \in {"absent", "partial", "complete", "invalid"}
    /\ config \in [Procs -> Docs]
    /\ calls \in 0..MaxSaves
    /\ blockedBy \in [Procs -> SUBSET Procs]
    /\ judgedDead \in [Procs -> BOOLEAN]

\* The state after every process has constructed its provider: the config
\* file holds the complete document D0, the provider of p holds DocOf[p],
\* no lock file exists.
Init ==
    /\ uid \in {u \in [Procs -> Uids] : u[1] = 1 /\ u[2] = 1}
    /\ op = [p \in Procs |-> "save"]
    /\ seen = [p \in Procs |-> Absent]
    /\ alive = [p \in Procs |-> TRUE]
    /\ pc = [p \in Procs |-> "idle"]
    /\ is_locked = [p \in Procs |-> FALSE]
    /\ lock_file = [p \in Procs |-> NoIno]
    /\ fd = [p \in Procs |-> NoIno]
    /\ lock_file_created_by_us = [p \in Procs |-> FALSE]
    /\ elapsed = [p \in Procs |-> 0]
    /\ sleep = [p \in Procs |-> 0]
    /\ exc = [p \in Procs |-> "none"]
    /\ lockPath = NoIno
    /\ inode = [i \in Inos |-> BlankInode]
    /\ files = [x \in Paths |-> IF x = CfgPath
                                THEN [doc |-> D0, bytes |-> "complete"]
                                ELSE Absent]
    /\ config = [p \in Procs |-> DocOf[p]]
    /\ calls = 0
    /\ blockedBy = [p \in Procs |-> {}]
    /\ judgedDead = [p \in Procs |-> FALSE]
    /\ snap = [p \in Procs |-> NoSnapshot]

\* ------------------------------------------------- FileLock._is_stale_lock
\* os.kill(pid, 0) sent by process p.
Kill0(p, pid) ==
    IF ~alive[pid] THEN "ESRCH"
    ELSE IF uid[pid] = uid[p] THEN "ok"
    ELSE "EPERM"

\* open(lock_path, 'r') by p: the file was created with mode 0o600.
CanRead(p, i) == inode[i].owner = uid[p]

\* lock_info.split(':', 1): the body is "" or "<pid>:<uid>".
PidIsDigit(body) == Len(body) >= 1
OldPid(body) == body[1]
OldUid(body) == IF Len(body) = 2 THEN body[2] ELSE 0

\* What the POSIX branch returns for the file linked at the lock path.
IsStaleLock(p) ==
    IF lockPath = NoIno THEN FALSE
    ELSE LET f == inode[lockPath] IN
         IF f.age <= StaleTimeout THEN FALSE
         ELSE IF ~CanRead(p, lockPath) THEN TRUE
         ELSE IF ~PidIsDigit(f.body) THEN TRUE
         ELSE IF Kill0(p, OldPid(f.body)) = "ok" THEN FALSE
         ELSE IF OldUid(f.body) # uid[p] THEN FALSE
         ELSE TRUE

\* The lock file at the path is older than stale_timeout, its body names a
\* pid that is dead and the uid of p.
DeadSameOwner(p) ==
    /\ lockPath # NoIno
    /\ inode[lockPath].age > StaleTimeout
    /\ Len(inode[lockPath].body) = 2
    /\ ~alive[inode[lockPath].body[1]]
    /\ inode[lockPath].body[2] = uid[p]

\* ----------------------------------- FileLock._safe_remove_lock_file
\* Unlinks whatever is linked at the lock path; the inode lives on while a
\* descriptor is open on it.
SafeRemoveLockFile(lfs, fds) ==
    /\ lockPath' = NoIno
    /\ inode' = Gc(inode, NoIno, fds, lfs)

\* ------------------------------------------------------ FileLock.acquire
\* save() builds a FileLock and enters it; acquire() reads start_time.
Save(p) ==
    /\ alive[p] /\ pc[p] = "idle" /\ op[p] \in {"load", "save"}
    /\ calls < MaxSaves
    /\ calls' = calls + 1
    /\ op' = [op EXCEPT ![p] = "save"]
    /\ pc' = [pc EXCEPT ![p] = "a_loop"]
    /\ elapsed' = [elapsed EXCEPT ![p] = 0]
    /\ lock_file_created_by_us' = [lock_file_created_by_us EXCEPT ![p] = FALSE]
    /\ UNCHANGED <<snap, uid, seen, alive, is_locked, lock_file, fd, sleep, exc, lockFs, files, config>>
    /\ blockedBy' = [blockedBy EXCEPT ![p] = {q \in Procs \ {p} : alive[q] /\ is_locked[q]}]
    /\ judgedDead' = [judgedDead EXCEPT ![p] = FALSE]

\* The while test and os.path.exists; past the deadline acquire() returns
\* False and __enter__ raises ConfigLockError.
ALoop(p) ==
    /\ alive[p] /\ pc[p] = "a_loop"
    /\ IF elapsed[p] < Timeout
       THEN /\ pc' = [pc EXCEPT ![p] = IF lockPath # NoIno THEN "a_stale1" ELSE "a_create"]
            /\ UNCHANGED lockFs
       ELSE /\ pc' = [pc EXCEPT ![p] = "s_except_lock"]
            /\ IF lock_file_created_by_us[p]
               THEN SafeRemoveLockFile(lock_file, fd)
               ELSE UNCHANGED lockFs
    /\ UNCHANGED <<snap, uid, op, seen, alive, lockObj, clocks, exc, docVars>>
    /\ UNCHANGED obs

\* _is_stale_lock() after os.path.exists found the file.
AStale1(p) ==
    /\ alive[p] /\ pc[p] = "a_stale1"
    /\ IF IsStaleLock(p)
       THEN /\ pc' = [pc EXCEPT ![p] = "a_rm1"]
            /\ UNCHANGED sleep
       ELSE /\ pc' = [pc EXCEPT ![p] = "a_sleep"]
            /\ sleep' = [sleep EXCEPT ![p] = PollInterval]
    /\ UNCHANGED <<snap, uid, op, seen, alive, lockObj, elapsed, exc, lockFs, docVars>>
    /\ judgedDead' = [judgedDead EXCEPT ![p] = @ \/ DeadSameOwner(p)]
    /\ UNCHANGED blockedBy

ARemove1(p) ==
    /\ alive[p] /\ pc[p] = "a_rm1"
    /\ SafeRemoveLockFile(lock_file, fd)
    /\ pc' = [pc EXCEPT ![p] = "a_create"]
    /\ UNCHANGED <<snap, uid, op, seen, alive, lockObj, clocks, exc, docVars>>
    /\ UNCHANGED obs

\* os.open(O_CREAT | O_EXCL | O_WRONLY, 0o600).
ACreate(p) ==
    /\ alive[p] /\ pc[p] = "a_create"
    /\ IF lockPath = NoIno
       THEN /\ lockPath' = FreeIno
            /\ inode' = [inode EXCEPT ![FreeIno] =
                            [owner |-> uid[p], body |-> <<>>, age |-> 0, flock |-> 0]]
            /\ fd' = [fd EXCEPT ![p] = FreeIno]
            /\ pc' = [pc EXCEPT ![p] = "a_write"]
       ELSE /\ pc' = [pc EXCEPT ![p] = "a_stale2"]
            /\ UNCHANGED <<lockFs, fd>>
    /\ UNCHANGED <<snap, uid, op, seen, alive, is_locked, lock_file, lock_file_created_by_us, clocks, exc, docVars>>
    /\ UNCHANGED obs

\* os.write(fd, "<pid>:<uid>\n"); os.close(fd); lock_file_created_by_us = True.
AWrite(p) ==
    /\ alive[p] /\ pc[p] = "a_write"
    /\ LET fds == [fd EXCEPT ![p] = NoIno]
           written == [inode EXCEPT ![fd[p]].body = <<p, uid[p]>>, ![fd[p]].age = 0]
       IN /\ fd' = fds
          /\ inode' = Gc(written, lockPath, fds, lock_file)
    /\ lock_file_created_by_us' = [lock_file_created_by_us EXCEPT ![p] = TRUE]
    /\ pc' = [pc EXCEPT ![p] = "a_open"]
    /\ UNCHANGED <<snap, uid, op, seen, alive, is_locked, lock_file, clocks, exc, lockPath, docVars>>
    /\ UNCHANGED obs

\* _is_stale_lock() after FileExistsError.
AStale2(p) ==
    /\ alive[p] /\ pc[p] = "a_stale2"
    /\ IF IsStaleLock(p)
       THEN /\ pc' = [pc EXCEPT ![p] = "a_rm2"]
            /\ UNCHANGED sleep
       ELSE /\ pc' = [pc EXCEPT ![p] = "a_sleep"]
            /\ sleep' = [sleep EXCEPT ![p] = PollInterval]
    /\ UNCHANGED <<snap, uid, op, seen, alive, lockObj, elapsed, exc, lockFs, docVars>>
    /\ judgedDead' = [judgedDead EXCEPT ![p] = @ \/ DeadSameOwner(p)]
    /\ UNCHANGED blockedBy

ARemove2(p) ==
    /\ alive[p] /\ pc[p] = "a_rm2"
    /\ SafeRemoveLockFile(lock_file, fd)
    /\ pc' = [pc EXCEPT ![p] = "a_loop"]
    /\ UNCHANGED <<snap, uid, op, seen, alive, lockObj, clocks, exc, docVars>>
    /\ UNCHANGED obs

\* self.lock_file = open(lock_path, 'r+'); a missing or unreadable file
\* raises into the outer except.
AOpen(p) ==
    /\ alive[p] /\ pc[p] = "a_open"
    /\ IF lockPath # NoIno /\ CanRead(p, lockPath)
       THEN /\ lock_file' = [lock_file EXCEPT ![p] = lockPath]
            /\ pc' = [pc EXCEPT ![p] = "a_flock"]
       ELSE /\ pc' = [pc EXCEPT ![p] = "a_exc"]
            /\ UNCHANGED lock_file
    /\ UNCHANGED <<snap, uid, op, seen, alive, is_locked, fd, lock_file_created_by_us, clocks, exc, lockFs, docVars>>
    /\ UNCHANGED obs

\* fcntl.flock(LOCK_EX | LOCK_NB); on failure the handle is closed.
AFlock(p) ==
    /\ alive[p] /\ pc[p] = "a_flock"
    /\ IF inode[lock_file[p]].flock = 0
       THEN /\ inode' = [inode EXCEPT ![lock_file[p]].flock = p]
            /\ is_locked' = [is_locked EXCEPT ![p] = TRUE]
            /\ pc' = [pc EXCEPT ![p] = IF op[p] = "load" THEN "l_read"
                                        ELSE IF op[p] = "lock" THEN "held"
                                        ELSE "s_mkstemp"]
            /\ UNCHANGED <<lock_file, sleep>>
       ELSE /\ LET lfs == [lock_file EXCEPT ![p] = NoIno]
               IN /\ lock_file' = lfs
                  /\ inode' = Gc(inode, lockPath, fd, lfs)
            /\ IF lock_file_created_by_us[p]
               THEN /\ pc' = [pc EXCEPT ![p] = "a_rm3"]
                    /\ UNCHANGED sleep
               ELSE /\ pc' = [pc EXCEPT ![p] = "a_sleep"]
                    /\ sleep' = [sleep EXCEPT ![p] = PollInterval]
            /\ UNCHANGED is_locked
    /\ UNCHANGED <<snap, uid, op, seen, alive, fd, lock_file_created_by_us, elapsed, exc, lockPath, docVars>>
    /\ UNCHANGED obs

ARemove3(p) ==
    /\ alive[p] /\ pc[p] = "a_rm3"
    /\ SafeRemoveLockFile(lock_file, fd)
    /\ lock_file_created_by_us' = [lock_file_created_by_us EXCEPT ![p] = FALSE]
    /\ sleep' = [sleep EXCEPT ![p] = PollInterval]
    /\ pc' = [pc EXCEPT ![p] = "a_sleep"]
    /\ UNCHANGED <<snap, uid, op, seen, alive, is_locked, lock_file, fd, elapsed, exc, docVars>>
    /\ UNCHANGED obs

\* time.sleep(poll_interval) is over; continue.
ASleep(p) ==
    /\ alive[p] /\ pc[p] = "a_sleep" /\ sleep[p] = 0
    /\ pc' = [pc EXCEPT ![p] = "a_loop"]
    /\ UNCHANGED <<snap, uid, op, seen, alive, lockObj, clocks, exc, lockFs, docVars>>
    /\ UNCHANGED obs

\* except Exception: close, remove the lock file if created by us, raise
\* ConfigLockError.
AExcept(p) ==
    /\ alive[p] /\ pc[p] = "a_exc"
    /\ IF lock_file_created_by_us[p]
       THEN SafeRemoveLockFile(lock_file, fd)
       ELSE UNCHANGED lockFs
    /\ pc' = [pc EXCEPT ![p] = "s_except_lock"]
    /\ UNCHANGED <<snap, uid, op, seen, alive, lockObj, clocks, exc, docVars>>
    /\ UNCHANGED obs

\* ------------------------------------------------------ JsonConfigProvider
\* A save() that, like _load(), goes on without the lock when it cannot get it.
SaveLockErrorFallback(p) ==
    /\ alive[p] /\ pc[p] = "s_except_lock"
    /\ pc' = [pc EXCEPT ![p] = "s_mkstemp"]
    /\ elapsed' = [elapsed EXCEPT ![p] = 0]
    /\ lock_file_created_by_us' = [lock_file_created_by_us EXCEPT ![p] = FALSE]
    /\ UNCHANGED <<snap, uid, op, seen, alive, is_locked, lock_file, fd, sleep, exc, lockFs, docVars>>
    /\ blockedBy' = [blockedBy EXCEPT ![p] = {}]
    /\ judgedDead' = [judgedDead EXCEPT ![p] = FALSE]

\* except ConfigLockError in save(): logged and re-raised to the caller.
SaveLockError(p) ==
    /\ alive[p] /\ pc[p] = "s_except_lock" /\ op[p] = "save"
    /\ pc' = [pc EXCEPT ![p] = "idle"]
    /\ elapsed' = [elapsed EXCEPT ![p] = 0]
    /\ lock_file_created_by_us' = [lock_file_created_by_us EXCEPT ![p] = FALSE]
    /\ UNCHANGED <<snap, uid, op, seen, alive, is_locked, lock_file, fd, sleep, exc, lockFs, docVars>>
    /\ blockedBy' = [blockedBy EXCEPT ![p] = {}]
    /\ judgedDead' = [judgedDead EXCEPT ![p] = FALSE]

\* Where _save_to_file returns or raises to: the with block of save(), or
\* _attempt_recovery or __init__, which hold no lock.
AfterWrite(p) ==
    IF op[p] = "load" THEN "l_end"
    ELSE IF op[p] = "init" THEN "c_load"
    ELSE "r_unlock"

\* A _save_to_file that creates the temp file without validating first.
SMkstempNoGate(p) ==
    /\ alive[p] /\ pc[p] = "s_mkstemp"
    /\ \E ok \in BOOLEAN :
         IF ok
         THEN /\ files' = [files EXCEPT ![TempPath(p)] = [doc |-> config[p], bytes |-> "partial"]]
              /\ pc' = [pc EXCEPT ![p] = "s_flush"]
              /\ UNCHANGED exc
         ELSE /\ exc' = [exc EXCEPT ![p] = "ConfigIOError"]
              /\ pc' = [pc EXCEPT ![p] = AfterWrite(p)]
              /\ UNCHANGED files
    /\ elapsed' = [elapsed EXCEPT ![p] = 0]
    /\ UNCHANGED <<snap, uid, op, seen, alive, lockObj, sleep, lockFs, config, calls>>
    /\ UNCHANGED obs

\* _save_to_file, the file I/O being private to p until the rename:
\* _validate_schema, tempfile.mkstemp in the directory of the config file,
\* and the first bytes json.dump writes.  ok = FALSE is an OSError of
\* mkstemp, which save() turns into ConfigIOError.
SMkstemp(p) ==
    /\ alive[p] /\ pc[p] = "s_mkstemp"
    /\ IF ~SchemaValid(config[p])
       THEN /\ exc' = [exc EXCEPT ![p] = "ConfigValidationError"]
            /\ pc' = [pc EXCEPT ![p] = AfterWrite(p)]
            /\ UNCHANGED files
       ELSE \E ok \in BOOLEAN :
         IF ok
         THEN /\ files' = [files EXCEPT ![TempPath(p)] = [doc |-> config[p], bytes |-> "partial"]]
              /\ pc' = [pc EXCEPT ![p] = "s_flush"]
              /\ UNCHANGED exc
         ELSE /\ exc' = [exc EXCEPT ![p] = "ConfigIOError"]
              /\ pc' = [pc EXCEPT ![p] = AfterWrite(p)]
              /\ UNCHANGED files
    /\ elapsed' = [elapsed EXCEPT ![p] = 0]
    /\ UNCHANGED <<snap, uid, op, seen, alive, lockObj, sleep, lockFs, config, calls>>
    /\ UNCHANGED obs

\* An except clause that raises ConfigIOError and leaves the temp file behind.
CleanupKeepTemp(p) ==
    /\ UNCHANGED files
    /\ exc' = [exc EXCEPT ![p] = "ConfigIOError"]
    /\ pc' = [pc EXCEPT ![p] = AfterWrite(p)]

\* except Exception in _save_to_file: unlink the temp file, raise ConfigIOError.
Cleanup(p) ==
    /\ files' = [files EXCEPT ![TempPath(p)] = Absent]
    /\ exc' = [exc EXCEPT ![p] = "ConfigIOError"]
    /\ pc' = [pc EXCEPT ![p] = AfterWrite(p)]

\* The rest of json.dump, f.flush(), os.fsync(): the temp file is complete.
SFlush(p) ==
    /\ alive[p] /\ pc[p] = "s_flush"
    /\ \E ok \in BOOLEAN :
         IF ok
         THEN /\ files' = [files EXCEPT ![TempPath(p)].bytes = "complete"]
              /\ pc' = [pc EXCEPT ![p] = "s_replace"]
              /\ UNCHANGED exc
         ELSE Cleanup(p)
    /\ UNCHANGED <<snap, uid, op, seen, alive, lockObj, clocks, lockFs, config, calls>>
    /\ UNCHANGED obs

\* os.replace(temp_path, config_path): one atomic rename.
SReplace(p) ==
    /\ alive[p] /\ pc[p] = "s_replace"
    /\ \E ok \in BOOLEAN :
         IF ok
         THEN /\ files' = [x \in Paths |->
                             IF x = CfgPath THEN files[TempPath(p)]
                             ELSE IF x = TempPath(p) THEN Absent
                             ELSE files[x]]
              /\ pc' = [pc EXCEPT ![p] = AfterWrite(p)]
              /\ UNCHANGED exc
         ELSE Cleanup(p)
    /\ UNCHANGED <<snap, uid, op, seen, alive, lockObj, clocks, lockFs, config, calls>>
    /\ UNCHANGED obs

\* ------------------------------------------------------ FileLock.release
\* Where __exit__ leaves the with block to: the statement after it, or the
\* except clause of save() or _load() that takes the exception in flight.
AfterRelease(p) ==
    IF exc[p] = "none" THEN "idle"
    ELSE IF op[p] # "load" THEN "s_except_io"
    ELSE IF exc[p] = "IOError" THEN "l_except_io"
    ELSE "l_recover"

\* __exit__ -> release(): fcntl.flock(LOCK_UN) and lock_file.close().
RUnlock(p) ==
    /\ alive[p] /\ pc[p] = "r_unlock"
    /\ IF is_locked[p]
       THEN /\ LET lfs == [lock_file EXCEPT ![p] = NoIno]
                   unl == [i \in Inos |-> IF i = lock_file[p] /\ inode[i].flock = p
                                          THEN [inode[i] EXCEPT !.flock = 0]
                                          ELSE inode[i]]
               IN /\ lock_file' = lfs
                  /\ inode' = Gc(unl, lockPath, fd, lfs)
            /\ pc' = [pc EXCEPT ![p] = "r_remove"]
       ELSE /\ pc' = [pc EXCEPT ![p] = AfterRelease(p)]
            /\ UNCHANGED <<lock_file, inode>>
    /\ UNCHANGED <<snap, uid, op, seen, alive, is_locked, fd, lock_file_created_by_us, clocks, exc, lockPath,
                   docVars>>
    /\ UNCHANGED obs

\* A release() that clears is_locked and leaves the lock file in place.
RReleaseNoUnlink(p) ==
    /\ alive[p] /\ pc[p] = "r_remove"
    /\ UNCHANGED <<lockPath, inode>>
    /\ is_locked' = [is_locked EXCEPT ![p] = FALSE]
    /\ lock_file_created_by_us' = [lock_file_created_by_us EXCEPT ![p] = FALSE]
    /\ pc' = [pc EXCEPT ![p] = AfterRelease(p)]
    /\ UNCHANGED <<snap, uid, op, seen, alive, lock_file, fd, clocks, exc, docVars>>
    /\ blockedBy' = [q \in Procs |-> IF q = p /\ exc[p] = "none" THEN {} ELSE blockedBy[q] \ {p}]
    /\ judgedDead' = [judgedDead EXCEPT ![p] = FALSE]

\* _safe_remove_lock_file() and is_locked = False (the flag is local to the
\* process: nobody observes the moment between the two).
RRemove(p) ==
    /\ alive[p] /\ pc[p] = "r_remove"
    /\ SafeRemoveLockFile(lock_file, fd)
    /\ is_locked' = [is_locked EXCEPT ![p] = FALSE]
    /\ lock_file_created_by_us' = [lock_file_created_by_us EXCEPT ![p] = FALSE]
    /\ pc' = [pc EXCEPT ![p] = AfterRelease(p)]
    /\ UNCHANGED <<snap, uid, op, seen, alive, lock_file, fd, clocks, exc, docVars>>
    /\ blockedBy' = [q \in Procs |-> IF q = p /\ exc[p] = "none" THEN {} ELSE blockedBy[q] \ {p}]
    /\ judgedDead' = [judgedDead EXCEPT ![p] = FALSE]

\* A save() whose handler gives up the pending changes: after a failure the
\* document in memory is read back from the config file.
SaveIOErrorRevert(p) ==
    /\ alive[p] /\ pc[p] = "s_except_io"
    /\ exc' = [exc EXCEPT ![p] = "none"]
    /\ pc' = [pc EXCEPT ![p] = "idle"]
    /\ config' = [config EXCEPT ![p] = files[CfgPath].doc]
    /\ UNCHANGED <<snap, uid, op, seen, alive, lockObj, clocks, lockFs, files, calls>>
    /\ blockedBy' = [blockedBy EXCEPT ![p] = {}]
    /\ judgedDead' = [judgedDead EXCEPT ![p] = FALSE]

\* except (ConfigIOError, ConfigValidationError) / except Exception in save():
\* the failure reaches the caller as ConfigIOError.
SaveIOError(p) ==
    /\ alive[p] /\ pc[p] = "s_except_io"
    /\ exc' = [exc EXCEPT ![p] = "none"]
    /\ pc' = [pc EXCEPT ![p] = "idle"]
    /\ UNCHANGED <<snap, uid, op, seen, alive, lockObj, clocks, lockFs, docVars>>
    /\ blockedBy' = [blockedBy EXCEPT ![p] = {}]
    /\ judgedDead' = [judgedDead EXCEPT ![p] = FALSE]

\* ------------------------------------------------- FileLock, used directly
\* lock.acquire() on a FileLock the caller keeps: acquire() reads start_time.
Acquire(p) ==
    /\ alive[p] /\ pc[p] = "idle" /\ op[p] = "lock" /\ ~is_locked[p]
    /\ calls < MaxSaves
    /\ calls' = calls + 1
    /\ pc' = [pc EXCEPT ![p] = "a_loop"]
    /\ elapsed' = [elapsed EXCEPT ![p] = 0]
    /\ lock_file_created_by_us' = [lock_file_created_by_us EXCEPT ![p] = FALSE]
    /\ UNCHANGED <<snap, uid, op, seen, alive, is_locked, lock_file, fd, sleep, exc, lockFs, files, config>>
    /\ blockedBy' = [blockedBy EXCEPT ![p] = {q \in Procs \ {p} : alive[q] /\ is_locked[q]}]
    /\ judgedDead' = [judgedDead EXCEPT ![p] = FALSE]

\* acquire() returned False or raised ConfigLockError: the caller goes on
\* without the lock.
AcquireFailed(p) ==
    /\ alive[p] /\ pc[p] = "s_except_lock" /\ op[p] = "lock"
    /\ pc' = [pc EXCEPT ![p] = "idle"]
    /\ elapsed' = [elapsed EXCEPT ![p] = 0]
    /\ lock_file_created_by_us' = [lock_file_created_by_us EXCEPT ![p] = FALSE]
    /\ UNCHANGED <<snap, uid, op, seen, alive, is_locked, lock_file, fd, sleep, exc, lockFs, docVars>>
    /\ blockedBy' = [blockedBy EXCEPT ![p] = {}]
    /\ judgedDead' = [judgedDead EXCEPT ![p] = FALSE]

\* The statements of release() past its first test: LOCK_UN, close(),
\* lock_file = None, _safe_remove_lock_file(), is_locked = False.  A failed
\* LOCK_UN is passed over and the close drops the flock; a failed close is
\* logged; a failed unlink is logged and leaves the file at the lock path.
ReleaseBody(p, unlinkOk, raises) ==
    LET lfs == [lock_file EXCEPT ![p] = NoIno]
        unl == [i \in Inos |-> IF i = lock_file[p] /\ inode[i].flock = p
                               THEN [inode[i] EXCEPT !.flock = 0]
                               ELSE inode[i]]
        lp  == IF unlinkOk THEN NoIno ELSE lockPath
    IN /\ lock_file' = lfs
       /\ lockPath' = lp
       /\ inode' = Gc(unl, lp, fd, lfs)
       /\ is_locked' = [is_locked EXCEPT ![p] = raises]
       /\ exc' = [exc EXCEPT ![p] = IF raises THEN "IOError" ELSE @]
       /\ lock_file_created_by_us' = [lock_file_created_by_us EXCEPT ![p] = FALSE]
       /\ UNCHANGED fd

\* A release() without its first test, and whose unlink lets its error out
\* before is_locked is cleared.
ReleaseUnguarded(p) ==
    /\ alive[p] /\ pc[p] \in {"held", "released"} /\ op[p] = "lock"
    /\ \E unlockOk, closeOk, unlinkOk \in BOOLEAN :
          ReleaseBody(p, unlinkOk, ~unlinkOk)
    /\ pc' = [pc EXCEPT ![p] = IF pc[p] = "held" THEN "released" ELSE "idle"]
    /\ UNCHANGED <<snap, uid, op, seen, alive, clocks, docVars>>
    /\ blockedBy' = [q \in Procs |-> IF q = p THEN {} ELSE blockedBy[q] \ {p}]
    /\ judgedDead' = [judgedDead EXCEPT ![p] = FALSE]

\* lock.release(), called once on the held lock and then once more.
Release(p) ==
    /\ alive[p] /\ pc[p] \in {"held", "released"} /\ op[p] = "lock"
    /\ IF ~is_locked[p]
       THEN UNCHANGED <<lockObj, lockFs, exc>>
       ELSE \E unlockOk, closeOk, unlinkOk \in BOOLEAN :
               ReleaseBody(p, unlinkOk, FALSE)
    /\ pc' = [pc EXCEPT ![p] = IF pc[p] = "held" THEN "released" ELSE "idle"]
    /\ UNCHANGED <<snap, uid, op, seen, alive, clocks, docVars>>
    /\ blockedBy' = [q \in Procs |-> IF q = p THEN {} ELSE blockedBy[q] \ {p}]
    /\ judgedDead' = [judgedDead EXCEPT ![p] = FALSE]

\* A release() without its first test, called on a lock that is not held: it
\* unlinks whatever is at the lock path.
ReleaseNotHeldUnguarded(p) ==
    /\ alive[p] /\ pc[p] = "idle" /\ op[p] = "lock" /\ ~is_locked[p]
    /\ ReleaseBody(p, TRUE, FALSE)
    /\ pc' = [pc EXCEPT ![p] = "released"]
    /\ UNCHANGED <<snap, uid, op, seen, alive, clocks, docVars, obs>>

\* lock.release() on a FileLock that is not held (acquire() was never
\* called, or returned False): `if not self.is_locked: return`.  The caller
\* has then released once.
ReleaseNotHeld(p) ==
    /\ alive[p] /\ pc[p] = "idle" /\ op[p] = "lock" /\ ~is_locked[p]
    /\ pc' = [pc EXCEPT ![p] = "released"]
    /\ UNCHANGED <<snap, uid, op, seen, alive, lockObj, clocks, exc, lockFs, docVars, obs>>

\* ------------------------------------------- JsonConfigProvider.__init__
\* __init__: _config is a copy of default_config (empty if there is none).
\* With a config file in place _load() builds a FileLock and enters it;
\* without one, the defaults, if any, are first written by _save_to_file, with
\* no lock taken.
ConstructWith(p, default_config) ==
    /\ alive[p] /\ pc[p] = "idle" /\ op[p] = "none"
    /\ calls < MaxSaves
    /\ calls' = calls + 1
    /\ config' = [config EXCEPT ![p] = default_config]
    /\ seen' = [seen EXCEPT ![p] = Absent]
    /\ IF files[CfgPath].bytes # "absent"
       THEN /\ op' = [op EXCEPT ![p] = "load"]
            /\ pc' = [pc EXCEPT ![p] = "a_loop"]
            /\ blockedBy' = [blockedBy EXCEPT ![p] =
                                {q \in Procs \ {p} : alive[q] /\ is_locked[q]}]
       ELSE IF default_config # {}
       THEN /\ op' = [op EXCEPT ![p] = "init"]
            /\ pc' = [pc EXCEPT ![p] = "s_mkstemp"]
            /\ UNCHANGED blockedBy
       ELSE /\ op' = [op EXCEPT ![p] = "load"]
            /\ UNCHANGED <<pc, blockedBy>>
    /\ elapsed' = [elapsed EXCEPT ![p] = 0]
    /\ lock_file_created_by_us' = [lock_file_created_by_us EXCEPT ![p] = FALSE]
    /\ UNCHANGED <<snap, uid, alive, is_locked, lock_file, fd, sleep, exc, lockFs, files>>
    /\ judgedDead' = [judgedDead EXCEPT ![p] = FALSE]

\* __init__ of a provider whose default_config is Defaults(p).
Construct(p) == ConstructWith(p, Defaults(p))

\* __init__ with any of the default documents that are tried.
ConstructAny(p) == \E default_config \in DefaultDocs(p) : ConstructWith(p, default_config)

\* After the first write of __init__, whose failure `except Exception` only
\* logs: _load(), which returns at once if there is no config file.
CLoad(p) ==
    /\ alive[p] /\ pc[p] = "c_load"
    /\ exc' = [exc EXCEPT ![p] = "none"]
    /\ op' = [op EXCEPT ![p] = "load"]
    /\ IF files[CfgPath].bytes # "absent"
       THEN /\ pc' = [pc EXCEPT ![p] = "a_loop"]
            /\ blockedBy' = [blockedBy EXCEPT ![p] =
                                {q \in Procs \ {p} : alive[q] /\ is_locked[q]}]
       ELSE /\ pc' = [pc EXCEPT ![p] = "idle"]
            /\ UNCHANGED blockedBy
    /\ elapsed' = [elapsed EXCEPT ![p] = 0]
    /\ UNCHANGED <<snap, uid, seen, alive, lockObj, sleep, lockFs, docVars, judgedDead>>

\* What open + json.load + _validate_schema make of the config file:
\* the exception they raise, "none" if the document is accepted.
ReadResult(f) ==
    IF f.bytes # "complete" THEN "JSONDecodeError"
    ELSE IF ~SchemaValid(f.doc) THEN "ConfigValidationError"
    ELSE "none"

\* A _load() that takes the loaded document as it is, without folding it
\* onto the defaults.
LReadReplace(p) ==
    /\ alive[p] /\ pc[p] = "l_read"
    /\ \E io \in BOOLEAN :
         LET r == IF io THEN "IOError" ELSE ReadResult(files[CfgPath]) IN
         /\ exc' = [exc EXCEPT ![p] = r]
         /\ config' = [config EXCEPT ![p] =
                          IF r = "none" THEN files[CfgPath].doc ELSE @]
         /\ seen' = [seen EXCEPT ![p] =
                        IF r \in {"JSONDecodeError", "ConfigValidationError"}
                        THEN files[CfgPath] ELSE @]
    /\ pc' = [pc EXCEPT ![p] = "r_unlock"]
    /\ elapsed' = [elapsed EXCEPT ![p] = 0]
    /\ UNCHANGED <<snap, uid, op, seen, alive, lockObj, sleep, lockFs, files, calls>>
    /\ UNCHANGED obs

\* The body of `with lock:` in _load(): read, validate, deep_merge.  io is an
\* IOError of open().
LRead(p) ==
    /\ alive[p] /\ pc[p] = "l_read"
    /\ \E io \in BOOLEAN :
         LET r == IF io THEN "IOError" ELSE ReadResult(files[CfgPath]) IN
         /\ exc' = [exc EXCEPT ![p] = r]
         /\ config' = [config EXCEPT ![p] =
                          IF r = "none" THEN deep_merge(@, files[CfgPath].doc) ELSE @]
         /\ seen' = [seen EXCEPT ![p] =
                        IF r \in {"JSONDecodeError", "ConfigValidationError"}
                        THEN files[CfgPath] ELSE @]
    /\ pc' = [pc EXCEPT ![p] = "r_unlock"]
    /\ elapsed' = [elapsed EXCEPT ![p] = 0]
    /\ UNCHANGED <<snap, uid, op, alive, lockObj, sleep, lockFs, files, calls>>
    /\ UNCHANGED obs

\* A _load() that lets ConfigLockError out of the constructor.
LoadLockErrorRaise(p) ==
    /\ alive[p] /\ pc[p] = "s_except_lock" /\ op[p] = "load"
    /\ pc' = [pc EXCEPT ![p] = "l_end"]
    /\ exc' = [exc EXCEPT ![p] = "ConfigError"]
    /\ elapsed' = [elapsed EXCEPT ![p] = 0]
    /\ lock_file_created_by_us' = [lock_file_created_by_us EXCEPT ![p] = FALSE]
    /\ UNCHANGED <<snap, uid, op, seen, alive, is_locked, lock_file, fd, sleep, lockFs, docVars>>
    /\ UNCHANGED obs

\* except ConfigLockError in _load(): warn and go on without the lock.
LoadLockError(p) ==
    /\ alive[p] /\ pc[p] = "s_except_lock" /\ op[p] = "load"
    /\ pc' = [pc EXCEPT ![p] = "l_fallback"]
    /\ elapsed' = [elapsed EXCEPT ![p] = 0]
    /\ lock_file_created_by_us' = [lock_file_created_by_us EXCEPT ![p] = FALSE]
    /\ UNCHANGED <<snap, uid, op, seen, alive, is_locked, lock_file, fd, sleep, exc, lockFs, docVars>>
    /\ UNCHANGED obs

\* The read without the lock; `except Exception` logs whatever it raises and
\* _load() returns.
LFallback(p) ==
    /\ alive[p] /\ pc[p] = "l_fallback"
    /\ \E io \in BOOLEAN :
         LET r == IF io THEN "IOError" ELSE ReadResult(files[CfgPath]) IN
         /\ config' = [config EXCEPT ![p] =
                          IF r = "none" THEN deep_merge(@, files[CfgPath].doc) ELSE @]
         /\ seen' = [seen EXCEPT ![p] =
                        IF r \in {"JSONDecodeError", "ConfigValidationError"}
                        THEN files[CfgPath] ELSE @]
    /\ pc' = [pc EXCEPT ![p] = "idle"]
    /\ UNCHANGED <<snap, uid, op, alive, lockObj, clocks, exc, lockFs, files, calls>>
    /\ blockedBy' = [blockedBy EXCEPT ![p] = {}]
    /\ judgedDead' = [judgedDead EXCEPT ![p] = FALSE]

\* except IOError in _load(): logged, _load() returns.
LoadIOError(p) ==
    /\ alive[p] /\ pc[p] = "l_except_io"
    /\ exc' = [exc EXCEPT ![p] = "none"]
    /\ pc' = [pc EXCEPT ![p] = "idle"]
    /\ UNCHANGED <<snap, uid, op, seen, alive, lockObj, clocks, lockFs, docVars>>
    /\ blockedBy' = [blockedBy EXCEPT ![p] = {}]
    /\ judgedDead' = [judgedDead EXCEPT ![p] = FALSE]

\* _attempt_recovery(), entered from the except clauses of _load() after the
\* with block has released the lock: shutil.copy of the config file to the
\* backup path (ok = FALSE: the copy raises), then, with defaults at hand,
\* _validate_schema and _save_to_file.
LRecover(p) ==
    /\ alive[p] /\ pc[p] = "l_recover"
    /\ \E ok \in BOOLEAN :
         IF ok
         THEN /\ files' = [files EXCEPT ![BackupPath] =
                              IF files[CfgPath].bytes # "absent" THEN files[CfgPath] ELSE @]
              /\ exc' = [exc EXCEPT ![p] = "none"]
              /\ pc' = [pc EXCEPT ![p] = IF config[p] # {} THEN "s_mkstemp" ELSE "l_end"]
         ELSE /\ exc' = [exc EXCEPT ![p] = "IOError"]
              /\ pc' = [pc EXCEPT ![p] = "l_end"]
              /\ UNCHANGED files
    /\ UNCHANGED <<snap, uid, op, seen, alive, lockObj, clocks, lockFs, config, calls>>
    /\ UNCHANGED obs

\* The end of _attempt_recovery(): it returns, and the provider is
\* constructed; or `except Exception` raises ConfigError out of __init__, and
\* there is no provider.
LEnd(p) ==
    /\ alive[p] /\ pc[p] = "l_end"
    /\ op' = [op EXCEPT ![p] = IF exc[p] = "none" THEN "load" ELSE "none"]
    /\ exc' = [exc EXCEPT ![p] = "none"]
    /\ pc' = [pc EXCEPT ![p] = "idle"]
    /\ UNCHANGED <<snap, uid, seen, alive, lockObj, clocks, lockFs, docVars>>
    /\ blockedBy' = [blockedBy EXCEPT ![p] = {}]
    /\ judgedDead' = [judgedDead EXCEPT ![p] = FALSE]

\* ------------------------------------------------------ get_all()
\* A get_all() that returns dict(self._config): a copy of the top level only.
ShallowCopyShares == "nested"

\* What the value returned by get_all() shares with self._config:
\* copy.deepcopy shares nothing.  ("nested": the mappings below the top
\* level are the same objects; "all": it is the same object.)
GetAllShares == "none"

\* Whether an assignment at key in document d, made through one of the two
\* references, shows through the other.
SharedAt(share, d, key) ==
    \/ share = "all"
    \/ share = "nested" /\ Len(key) > 1 /\ IsDict(d, Head(key))

\* A top-level assignment through one reference parts the nested objects.
ShareAfter(share, d, key) ==
    IF share = "nested" /\ ~(Len(key) > 1 /\ IsDict(d, Head(key))) THEN "none" ELSE share

\* The caller's snapshot after set(key, value) on the provider.
SnapAfterSet(p, key, value) ==
    [snap EXCEPT ![p] =
        [held  |-> @.held,
         doc   |-> IF @.held /\ SharedAt(@.share, config[p], key)
                   THEN set(@.doc, key, value) ELSE @.doc,
         share |-> IF @.held THEN ShareAfter(@.share, config[p], key) ELSE @.share]]

\* The caller's snapshot after update() assigned a new document object.
SnapAfterUpdate(p) == [snap EXCEPT ![p].share = "none"]

\* get_all(): the caller of p receives copy.deepcopy(self._config).
DGetAll(p) ==
    /\ alive[p] /\ pc[p] = "idle" /\ op[p] = "save"
    /\ snap' = [snap EXCEPT ![p] = [held |-> TRUE, doc |-> get_all(config[p]),
                                    share |-> GetAllShares]]
    /\ UNCHANGED <<uid, op, seen, alive, pc, lockObj, clocks, exc, lockFs, docVars, obs>>

\* The caller changes the value it was returned, at any depth.
DMutate(p) ==
    /\ alive[p] /\ pc[p] = "idle" /\ op[p] = "save" /\ snap[p].held
    /\ \E key \in SetKeys, value \in SetValues :
          /\ \A l \in value : Len(key) + Len(l[1]) <= MaxDepth
          /\ snap' = [snap EXCEPT ![p].doc = set(@, key, value),
                                  ![p].share = ShareAfter(@, snap[p].doc, key)]
          /\ config' = [config EXCEPT ![p] =
                           IF SharedAt(snap[p].share, snap[p].doc, key)
                           THEN set(@, key, value) ELSE @]
    /\ UNCHANGED <<uid, op, seen, alive, pc, lockObj, clocks, exc, lockFs, files, calls, obs>>

\* A set() that also writes the document through to the config file.
DSetWriteThrough(p) ==
    /\ alive[p] /\ pc[p] = "idle" /\ op[p] = "save"
    /\ \E key \in SetKeys, value \in SetValues :
          /\ \A l \in value : Len(key) + Len(l[1]) <= MaxDepth
          /\ config' = [config EXCEPT ![p] = set(@, key, value)]
          /\ snap' = SnapAfterSet(p, key, value)
          /\ files' = [files EXCEPT ![CfgPath] =
                           [doc |-> set(config[p], key, value), bytes |-> "complete"]]
    /\ exc' = [exc EXCEPT ![p] = "none"]
    /\ UNCHANGED <<uid, op, seen, alive, pc, lockObj, clocks, lockFs, calls, obs>>

\* ------------------------------------------ documents through save and load
\* set(key, value) on the provider of p.
DSet(p) ==
    /\ alive[p] /\ pc[p] = "idle" /\ op[p] = "save"
    /\ \E key \in SetKeys, value \in SetValues :
          /\ \A l \in value : Len(key) + Len(l[1]) <= MaxDepth
          /\ config' = [config EXCEPT ![p] = set(@, key, value)]
          /\ snap' = SnapAfterSet(p, key, value)
    /\ exc' = [exc EXCEPT ![p] = "none"]
    /\ UNCHANGED <<uid, op, seen, alive, pc, lockObj, clocks, lockFs, files, calls, obs>>

\* An update() that assigns the merge before it validates it.
DUpdateAssignFirst(p) ==
    /\ alive[p] /\ pc[p] = "idle" /\ op[p] = "save"
    /\ \E updates \in Updates :
          LET updated_config == deep_merge(config[p], updates) IN
          /\ config' = [config EXCEPT ![p] = updated_config]
          /\ snap' = SnapAfterUpdate(p)
          /\ exc' = [exc EXCEPT ![p] = IF SchemaValid(updated_config) THEN "none"
                                       ELSE "ConfigValidationError"]
    /\ UNCHANGED <<uid, op, seen, alive, pc, lockObj, clocks, lockFs, files, calls, obs>>

\* update(config): deep merge, validate, assign; a rejected merge raises
\* ConfigValidationError before the assignment.
DUpdate(p) ==
    /\ alive[p] /\ pc[p] = "idle" /\ op[p] = "save"
    /\ \E updates \in Updates :
          LET updated_config == deep_merge(config[p], updates) IN
          IF SchemaValid(updated_config)
          THEN /\ config' = [config EXCEPT ![p] = updated_config]
               /\ snap' = SnapAfterUpdate(p)
               /\ exc' = [exc EXCEPT ![p] = "none"]
          ELSE /\ exc' = [exc EXCEPT ![p] = "ConfigValidationError"]
               /\ UNCHANGED <<config, snap>>
    /\ UNCHANGED <<uid, op, seen, alive, pc, lockObj, clocks, lockFs, files, calls, obs>>

\* update(config) with any of the documents of MergeDocs.
DUpdateAny(p) ==
    /\ alive[p] /\ pc[p] = "idle" /\ op[p] = "save"
    /\ \E updates \in MergeDocs :
          LET updated_config == deep_merge(config[p], updates) IN
          IF SchemaValid(updated_config)
          THEN /\ config' = [config EXCEPT ![p] = updated_config]
               /\ snap' = SnapAfterUpdate(p)
               /\ exc' = [exc EXCEPT ![p] = "none"]
          ELSE /\ exc' = [exc EXCEPT ![p] = "ConfigValidationError"]
               /\ UNCHANGED <<config, snap>>
    /\ UNCHANGED <<uid, op, seen, alive, pc, lockObj, clocks, lockFs, files, calls, obs>>

\* A save() that succeeds, start to end: the config file holds the document.
DSave(p) ==
    /\ alive[p] /\ pc[p] = "idle" /\ op[p] = "save"
    /\ SchemaValid(config[p])
    /\ files' = [files EXCEPT ![CfgPath] = [doc |-> config[p], bytes |-> "complete"]]
    /\ exc' = [exc EXCEPT ![p] = "none"]
    /\ UNCHANGED <<snap, uid, op, seen, alive, pc, lockObj, clocks, lockFs, config, calls, obs>>

\* A fresh provider on the same path with the defaults of the writer w, and
\* its get_all().
DReload(q, w) ==
    /\ alive[q] /\ pc[q] = "idle" /\ op[q] # "save" /\ op[w] = "save"
    /\ ReadResult(files[CfgPath]) = "none"
    /\ op' = [op EXCEPT ![q] = "load"]
    /\ config' = [config EXCEPT ![q] = get_all(deep_merge(Defaults(w), files[CfgPath].doc))]
    /\ UNCHANGED <<snap, uid, seen, alive, pc, lockObj, clocks, exc, lockFs, files, calls, obs>>

\* ------------------------------------------------------------ environment
\* The process dies in the middle of save(): the kernel closes its
\* descriptors and drops its flock; the files it created stay.  (A process
\* that dies between calls leaves nothing behind.)
Crash(p) ==
    /\ alive[p] /\ pc[p] # "idle"
    /\ alive' = [alive EXCEPT ![p] = FALSE]
    /\ pc' = [pc EXCEPT ![p] = "dead"]
    /\ is_locked' = [is_locked EXCEPT ![p] = FALSE]
    /\ lock_file_created_by_us' = [lock_file_created_by_us EXCEPT ![p] = FALSE]
    /\ elapsed' = [elapsed EXCEPT ![p] = 0]
    /\ sleep' = [sleep EXCEPT ![p] = 0]
    /\ exc' = [exc EXCEPT ![p] = "none"]
    /\ LET lfs == [lock_file EXCEPT ![p] = NoIno]
           fds == [fd EXCEPT ![p] = NoIno]
           unl == [i \in Inos |-> IF inode[i].flock = p
                                  THEN [inode[i] EXCEPT !.flock = 0]
                                  ELSE inode[i]]
       IN /\ lock_file' = lfs
          /\ fd' = fds
          /\ inode' = Gc(unl, lockPath, fds, lfs)
    /\ UNCHANGED <<snap, uid, op, seen, lockPath, files, config, calls>>
    /\ blockedBy' = [q \in Procs |-> IF q = p THEN {} ELSE blockedBy[q] \ {p}]
    /\ judgedDead' = [judgedDead EXCEPT ![p] = FALSE]

\* One unit of time passes.
Advance ==
    /\ inode' = [i \in Inos |->
                    IF Referenced(i, lockPath, fd, lock_file)
                    THEN [inode[i] EXCEPT !.age = Min(@ + 1, AgeCap)]
                    ELSE inode[i]]
    /\ elapsed' = [p \in Procs |->
                    IF pc[p] \in AcquirePcs THEN Min(elapsed[p] + 1, ElapsedCap)
                    ELSE elapsed[p]]
    /\ sleep' = [p \in Procs |-> IF sleep[p] > 0 THEN sleep[p] - 1 ELSE 0]
    /\ UNCHANGED <<snap, uid, op, seen, alive, pc, lockObj, exc, lockPath, docVars, obs>>

\* The lock's system calls and the local statements take no time next to
\* poll_interval; time passes while a process idles, sleeps or waits for
\* its write to reach the disk (json.dump, flush, os.fsync), and a sleeper
\* wakes when its sleep is over.  A process may also be kept off the CPU
\* between os.path.exists and os.open, the window after which the code
\* examines the lock file a second time (except FileExistsError).
TimedPcs == {"idle", "dead", "s_flush", "a_create", "held"}

Tick ==
    /\ \A p \in Procs : \/ pc[p] \in TimedPcs
                        \/ pc[p] = "a_sleep" /\ sleep[p] > 0
    /\ \E p \in Procs : alive[p] /\ pc[p] # "idle"
    /\ Advance

Step(p) ==
    \/ Save(p) \/ ALoop(p) \/ AStale1(p) \/ ARemove1(p) \/ ACreate(p) \/ AWrite(p)
    \/ AStale2(p) \/ ARemove2(p) \/ AOpen(p) \/ AFlock(p) \/ ARemove3(p)
    \/ ASleep(p) \/ AExcept(p) \/ SaveLockError(p)
    \/ SMkstemp(p) \/ SFlush(p) \/ SReplace(p)
    \/ RUnlock(p) \/ RRemove(p) \/ SaveIOError(p)

Next ==
    \/ \E p \in Procs : Step(p)
    \/ \E p \in Procs : Crash(p)
    \/ Tick

Spec == Init /\ [][Next]_vars

\* ------------------------------------------- construction beside savers
\* Processes 1 and 2 have no provider yet and construct one; process 3 has
\* its provider, and has set() a value the schema forbids since.  The
\* config file is sound, or not JSON, or JSON that violates the schema
\* (something outside the providers wrote it).  All run as one user.
LoadInit ==
    /\ uid = [p \in Procs |-> 1]
    /\ op = [p \in Procs |-> IF p = 3 THEN "save" ELSE "none"]
    /\ seen = [p \in Procs |-> Absent]
    /\ alive = [p \in Procs |-> TRUE]
    /\ pc = [p \in Procs |-> "idle"]
    /\ is_locked = [p \in Procs |-> FALSE]
    /\ lock_file = [p \in Procs |-> NoIno]
    /\ fd = [p \in Procs |-> NoIno]
    /\ lock_file_created_by_us = [p \in Procs |-> FALSE]
    /\ elapsed = [p \in Procs |-> 0]
    /\ sleep = [p \in Procs |-> 0]
    /\ exc = [p \in Procs |-> "none"]
    /\ lockPath = NoIno
    /\ inode = [i \in Inos |-> BlankInode]
    /\ \E f \in {[doc |-> D0, bytes |-> "complete"], Corrupt,
                  [doc |-> BadDoc, bytes |-> "complete"]} :
          files = [x \in Paths |-> IF x = CfgPath THEN f ELSE Absent]
    /\ config = [p \in Procs |-> IF p = 3 THEN deep_merge(DocOf[p], BadDoc)
                                  ELSE Defaults(p)]
    /\ calls = 0
    /\ blockedBy = [p \in Procs |-> {}]
    /\ judgedDead = [p \in Procs |-> FALSE]
    /\ snap = [p \in Procs |-> NoSnapshot]

LoadStep(p) ==
    \/ Construct(p) \/ LRead(p) \/ LoadLockError(p) \/ LFallback(p)
    \/ LoadIOError(p) \/ LRecover(p) \/ LEnd(p)

LoadNext ==
    \/ \E p \in Procs : LoadStep(p)
    \/ Next

LoadSpec == LoadInit /\ [][LoadNext]_vars

\* Every process keeps a FileLock on the config path and takes and releases
\* it by hand; nobody saves.
ReleaseInit ==
    /\ uid = [p \in Procs |-> 1]
    /\ op = [p \in Procs |-> "lock"]
    /\ seen = [p \in Procs |-> Absent]
    /\ alive = [p \in Procs |-> TRUE]
    /\ pc = [p \in Procs |-> "idle"]
    /\ is_locked = [p \in Procs |-> FALSE]
    /\ lock_file = [p \in Procs |-> NoIno]
    /\ fd = [p \in Procs |-> NoIno]
    /\ lock_file_created_by_us = [p \in Procs |-> FALSE]
    /\ elapsed = [p \in Procs |-> 0]
    /\ sleep = [p \in Procs |-> 0]
    /\ exc = [p \in Procs |-> "none"]
    /\ lockPath = NoIno
    /\ inode = [i \in Inos |-> BlankInode]
    /\ files = [x \in Paths |-> IF x = CfgPath
                                THEN [doc |-> D0, bytes |-> "complete"]
                                ELSE Absent]
    /\ config = [p \in Procs |-> DocOf[p]]
    /\ calls = 0
    /\ blockedBy = [p \in Procs |-> {}]
    /\ judgedDead = [p \in Procs |-> FALSE]
    /\ snap = [p \in Procs |-> NoSnapshot]

LockStep(p) ==
    \/ Acquire(p) \/ ALoop(p) \/ AStale1(p) \/ ARemove1(p) \/ ACreate(p) \/ AWrite(p)
    \/ AStale2(p) \/ ARemove2(p) \/ AOpen(p) \/ AFlock(p) \/ ARemove3(p)
    \/ ASleep(p) \/ AExcept(p) \/ AcquireFailed(p)
    \/ Release(p) \/ ReleaseNotHeld(p)

ReleaseNext ==
    \/ \E p \in Procs : LockStep(p)
    \/ \E p \in Procs : Crash(p)
    \/ Tick

ReleaseSpec == ReleaseInit /\ [][ReleaseNext]_vars

\* No provider exists yet; the config file is missing, sound or corrupt, and
\* processes 1 and 2 construct providers with some default document (process
\* 3 is not running).
CtorInit ==
    /\ uid = [p \in Procs |-> 1]
    /\ op = [p \in Procs |-> "none"]
    /\ seen = [p \in Procs |-> Absent]
    /\ alive = [p \in Procs |-> p # 3]
    /\ pc = [p \in Procs |-> IF p = 3 THEN "dead" ELSE "idle"]
    /\ is_locked = [p \in Procs |-> FALSE]
    /\ lock_file = [p \in Procs |-> NoIno]
    /\ fd = [p \in Procs |-> NoIno]
    /\ lock_file_created_by_us = [p \in Procs |-> FALSE]
    /\ elapsed = [p \in Procs |-> 0]
    /\ sleep = [p \in Procs |-> 0]
    /\ exc = [p \in Procs |-> "none"]
    /\ lockPath = NoIno
    /\ inode = [i \in Inos |-> BlankInode]
    /\ \E f \in {Absent, [doc |-> D0, bytes |-> "complete"], Corrupt} :
          files = [x \in Paths |-> IF x = CfgPath THEN f ELSE Absent]
    /\ config = [p \in Procs |-> {}]
    /\ calls = 0
    /\ blockedBy = [p \in Procs |-> {}]
    /\ judgedDead = [p \in Procs |-> FALSE]
    /\ snap = [p \in Procs |-> NoSnapshot]

\* With two processes under one uid nobody else has a created lock file open
\* and nobody removes it before it is reopened: ARemove3 and AExcept are
\* never enabled, and are left out.
CtorStep(p) ==
    \/ ConstructAny(p) \/ CLoad(p) \/ LRead(p) \/ LoadLockError(p) \/ LFallback(p)
    \/ LoadIOError(p) \/ LRecover(p) \/ LEnd(p)
    \/ Save(p) \/ ALoop(p) \/ AStale1(p) \/ ARemove1(p) \/ ACreate(p) \/ AWrite(p)
    \/ AStale2(p) \/ ARemove2(p) \/ AOpen(p) \/ AFlock(p)
    \/ ASleep(p) \/ SaveLockError(p)
    \/ SMkstemp(p) \/ SFlush(p) \/ SReplace(p)
    \/ RUnlock(p) \/ RRemove(p) \/ SaveIOError(p)

CtorNext ==
    \/ \E p \in Procs : CtorStep(p)
    \/ \E p \in Procs : Crash(p)
    \/ Tick

CtorSpec == CtorInit /\ [][CtorNext]_vars

\* Process 1 has a provider on the defaults and edits and saves it; process
\* 2 constructs fresh providers on what it saved (process 3 is not running).
DocInit ==
    /\ uid = [p \in Procs |-> 1]
    /\ op = [p \in Procs |-> IF p = 1 THEN "save" ELSE "none"]
    /\ seen = [p \in Procs |-> Absent]
    /\ alive = [p \in Procs |-> p # 3]
    /\ pc = [p \in Procs |-> IF p = 3 THEN "dead" ELSE "idle"]
    /\ is_locked = [p \in Procs |-> FALSE]
    /\ lock_file = [p \in Procs |-> NoIno]
    /\ fd = [p \in Procs |-> NoIno]
    /\ lock_file_created_by_us = [p \in Procs |-> FALSE]
    /\ elapsed = [p \in Procs |-> 0]
    /\ sleep = [p \in Procs |-> 0]
    /\ exc = [p \in Procs |-> "none"]
    /\ lockPath = NoIno
    /\ inode = [i \in Inos |-> BlankInode]
    /\ files = [x \in Paths |-> IF x = CfgPath
                                THEN [doc |-> Defaults(1), bytes |-> "complete"]
                                ELSE Absent]
    /\ config = [p \in Procs |-> Defaults(1)]
    /\ calls = 0
    /\ blockedBy = [p \in Procs |-> {}]
    /\ judgedDead = [p \in Procs |-> FALSE]
    /\ snap = [p \in Procs |-> NoSnapshot]

DocNext ==
    \/ \E p \in Procs : DSet(p)
    \/ \E p \in Procs : DUpdate(p)
    \/ \E p \in Procs : DSave(p)
    \/ \E q, w \in Procs : DReload(q, w)

DocSpec == DocInit /\ [][DocNext]_vars

\* Process 1 has a provider on the defaults; its caller sets and updates
\* values, takes snapshots with get_all() and changes them.
SnapInit == DocInit

SnapNext ==
    \/ \E p \in Procs : DSet(p)
    \/ \E p \in Procs : DUpdate(p)
    \/ \E p \in Procs : DGetAll(p)
    \/ \E p \in Procs : DMutate(p)

SnapSpec == SnapInit /\ [][SnapNext]_vars

\* Process 1 has a provider constructed, with no config file in place, on
\* any default_config of MergeDocs (__init__ writes the file if the schema
\* accepts the defaults); its caller updates it with any document of
\* MergeDocs.
MergeInit ==
    /\ uid = [p \in Procs |-> 1]
    /\ op = [p \in Procs |-> IF p = 1 THEN "save" ELSE "none"]
    /\ seen = [p \in Procs |-> Absent]
    /\ alive = [p \in Procs |-> p = 1]
    /\ pc = [p \in Procs |-> IF p = 1 THEN "idle" ELSE "dead"]
    /\ is_locked = [p \in Procs |-> FALSE]
    /\ lock_file = [p \in Procs |-> NoIno]
    /\ fd = [p \in Procs |-> NoIno]
    /\ lock_file_created_by_us = [p \in Procs |-> FALSE]
    /\ elapsed = [p \in Procs |-> 0]
    /\ sleep = [p \in Procs |-> 0]
    /\ exc = [p \in Procs |-> "none"]
    /\ lockPath = NoIno
    /\ inode = [i \in Inos |-> BlankInode]
    /\ \E default_config \in MergeDocs :
          /\ config = [p \in Procs |-> IF p = 1 THEN default_config ELSE {}]
          /\ files = [x \in Paths |->
                         IF x = CfgPath /\ default_config # {} /\ SchemaValid(default_config)
                         THEN [doc |-> default_config, bytes |-> "complete"]
                         ELSE Absent]
    /\ calls = 0
    /\ blockedBy = [p \in Procs |-> {}]
    /\ judgedDead = [p \in Procs |-> FALSE]
    /\ snap = [p \in Procs |-> NoSnapshot]

MergeNext == \E p \in Procs : DUpdateAny(p)

MergeSpec == MergeInit /\ [][MergeNext]_vars

\* ============================================================ properties
\* The process that takes a step (none on Tick).
Moves(p) == pc'[p] # pc[p]
Holds(p) == alive[p] /\ is_locked[p]

\* The creator of lock file i: the pid in its body or, before the body is
\* written, the process that still has it open for writing (0: that process
\* is dead).
Creator(i) ==
    IF Len(inode[i].body) = 2 THEN inode[i].body[1]
    ELSE IF \E p \in Procs : fd[p] = i THEN CHOOSE p \in Procs : fd[p] = i
    ELSE 0

\* C1 -- Mutual exclusion: at every instant at most one live process has
\* is_locked = true, in every interleaving of acquire()/release(), stale
\* reclaim included.
MutualExclusion ==
    \A p, q \in Procs : (Holds(p) /\ Holds(q)) => p = q

\* C2 -- Atomicity of the config file: in every state, also after a crash of
\* a writer at any step, the config path holds a complete document, and every
\* step leaves it as it was or replaces it by the complete in-memory document
\* of the process that renames; a reader never finds partial bytes there.
AtomicConfigFile ==
    [][ /\ files[CfgPath].bytes = "complete"
        /\ files'[CfgPath].bytes = "complete"
        /\ \/ files'[CfgPath] = files[CfgPath]
           \/ \E p \in Procs : /\ pc[p] = "s_replace" /\ Moves(p)
                               /\ files'[CfgPath].doc = config[p] ]_vars

\* C2 witness: a writer died in the middle of writing its temp file while the
\* config path holds the complete document another process saved.
AtomicConfigFileWitness ==
    \E p, q \in Procs :
        /\ p # q /\ ~alive[p]
        /\ files[TempPath(p)].bytes = "partial"
        /\ files[CfgPath] = [doc |-> config[q], bytes |-> "complete"]

\* C3 -- A live holder is never evicted: while a live process holds the lock
\* on the file linked at the lock path, nobody unlinks or replaces that file,
\* however long it is held.
LiveHolderNeverEvicted ==
    [][ \A p \in Procs :
          (Holds(p) /\ lock_file[p] # NoIno /\ lockPath = lock_file[p])
              => lockPath' = lockPath ]_vars

\* C4 -- Stale reclaim: a competitor that meets a lock file older than
\* stale_timeout naming a dead pid and its own uid judges it stale, deletes
\* it and retries without sleeping; and its acquire() then fails only if the
\* timeout has elapsed or a live process holds the lock.
StaleReclaimSucceeds ==
    [][ \A q \in Procs :
          /\ (pc[q] \in {"a_stale1", "a_stale2"} /\ Moves(q) /\ alive'[q] /\ DeadSameOwner(q))
                => pc'[q] \in {"a_rm1", "a_rm2"}
          /\ (pc[q] \in {"a_rm1", "a_rm2"} /\ Moves(q) /\ alive'[q])
                => /\ lockPath' = NoIno
                   /\ pc'[q] \in {"a_create", "a_loop"}
                   /\ sleep'[q] = 0
          /\ (pc'[q] = "s_except_lock" /\ Moves(q) /\ judgedDead[q])
                => \/ elapsed[q] >= Timeout
                   \/ \E x \in Procs : Holds(x) ]_vars

\* C5 -- Age boundary: a lock file whose age is at most stale_timeout is
\* never deleted by a process other than its creator.
YoungLockNeverDeleted ==
    [][ (lockPath # NoIno /\ inode[lockPath].age <= StaleTimeout /\ lockPath' # lockPath)
          => \E p \in Procs : Moves(p) /\ p = Creator(lockPath) ]_vars

\* C6 -- Proof of death is required: _is_stale_lock() answers "stale" only
\* for a file whose body names a pid that the probe found dead; alive,
\* unknown or a body naming no pid the prober can read means "not stale".
StaleOnlyIfProvenDead ==
    [][ \A q \in Procs :
          (pc[q] \in {"a_stale1", "a_stale2"} /\ pc'[q] \in {"a_rm1", "a_rm2"})
              => /\ lockPath # NoIno
                 /\ CanRead(q, lockPath)
                 /\ PidIsDigit(inode[lockPath].body)
                 /\ Kill0(q, OldPid(inode[lockPath].body)) = "ESRCH" ]_vars

\* C7 -- Different-owner locks are never reclaimed: a lock file whose
\* recorded pid is dead and whose recorded uid is not the prober's is never
\* deleted by that prober, whatever its age.
OtherOwnerNeverReclaimed ==
    [][ \A q \in Procs :
          ( /\ lockPath # NoIno
            /\ Len(inode[lockPath].body) = 2
            /\ ~alive[inode[lockPath].body[1]]
            /\ inode[lockPath].body[2] # uid[q]
            /\ Moves(q) )
              => lockPath' = lockPath ]_vars

\* C8 -- save() never writes without the lock: a process is inside
\* _save_to_file only with is_locked; a call whose acquire() ran out of time
\* goes to the ConfigLockError handler and from there back to the caller; and
\* no step of acquire() or of that handler changes any file of the config.
SaveNeverWritesUnlocked ==
    [][ \A p \in Procs :
          /\ (alive[p] /\ pc[p] \in WritePcs) => is_locked[p]
          /\ (pc[p] = "a_loop" /\ elapsed[p] >= Timeout /\ Moves(p) /\ alive'[p])
                => pc'[p] = "s_except_lock"
          /\ (pc[p] = "s_except_lock" /\ Moves(p) /\ alive'[p])
                => (pc'[p] = "idle" /\ ~is_locked'[p])
          /\ (pc[p] \in AcquirePcs \cup {"s_except_lock"} /\ Moves(p))
                => files' = files ]_vars

\* C8 witness: a call is in the ConfigLockError handler, its acquire() having
\* run out of time while another live process holds the lock; the config file
\* still holds the document it held at the start.
SaveNeverWritesUnlockedWitness ==
    \E p, q \in Procs :
        /\ p # q /\ alive[p] /\ pc[p] = "s_except_lock" /\ elapsed[p] >= Timeout
        /\ Holds(q) /\ q \in blockedBy[p]
        /\ files[CfgPath] = [doc |-> D0, bytes |-> "complete"]

\* C9 -- Contention between two savers: a save() called while a live process
\* holds the lock gets the lock, and writes, only after that holder has
\* released (so it raises ConfigLockError if the holder never releases in
\* time).
SecondSaverWaits ==
    \A b \in Procs :
        (alive[b] /\ (is_locked[b] \/ pc[b] \in WritePcs)) => blockedBy[b] = {}

\* C10 -- Bounded wait: acquire() returns no later than `timeout` after it
\* was called.
AcquireReturnsByTimeout ==
    [][ \A p \in Procs :
          (pc[p] \in AcquirePcs /\ pc'[p] \notin AcquirePcs /\ alive'[p])
              => elapsed[p] <= Timeout ]_vars

\* C11 -- Outcome of acquire(): every acquire() that ends in a live process
\* ends by returning true (is_locked) or, the timeout having elapsed, false
\* with is_locked false and no descriptor open; a lost race (flock refused,
\* or the created file gone when it is reopened) never ends it with an error.
AcquireEndsTrueOrFalse ==
    [][ \A p \in Procs :
          (pc[p] \in AcquirePcs /\ pc'[p] \notin AcquirePcs /\ alive'[p])
              => \/ is_locked'[p]
                 \/ /\ pc[p] = "a_loop" /\ elapsed[p] >= Timeout
                    /\ ~is_locked'[p] /\ lock_file'[p] = NoIno /\ fd'[p] = NoIno ]_vars

BestEffortLoad ==
    [][ \A p \in Procs :
          /\ (pc[p] = "s_except_lock" /\ op[p] = "load" /\ Moves(p) /\ alive'[p])
                => pc'[p] = "l_fallback"
          /\ (pc[p] = "l_fallback" /\ Moves(p) /\ alive'[p])
                => /\ pc'[p] = "idle" /\ op'[p] = "load" /\ exc'[p] = "none"
                   /\ \/ /\ ReadResult(files[CfgPath]) = "none"
                         /\ config'[p] = deep_merge(Defaults(p), files[CfgPath].doc)
                      \/ config'[p] = Defaults(p) ]_vars

\* C15 witness: a provider was constructed while a live process held the
\* lock throughout; it holds the merge of its defaults and the file.
BestEffortLoadWitness ==
    \E p, q \in Procs :
        /\ p # q /\ Holds(q) /\ pc[q] = "s_flush"
        /\ alive[p] /\ pc[p] = "idle" /\ op[p] = "load" /\ ~is_locked[p]
        /\ files[CfgPath].bytes = "complete"
        /\ config[p] = deep_merge(Defaults(p), files[CfgPath].doc)
        /\ config[p] # Defaults(p)
        /\ calls = MaxSaves

\* C17 -- Corruption recovery: a construction that found invalid JSON in the
\* config file and completes leaves a backup file holding the bad bytes, the
\* config file holding exactly the defaults, and the defaults in memory.
CorruptionRecovery ==
    [][ \A p \in Procs :
          (/\ op[p] = "load" /\ op'[p] = "load" /\ alive'[p]
           /\ pc[p] # "idle" /\ pc'[p] = "idle"
           /\ seen'[p] = Corrupt)
              => /\ files'[BackupPath] = Corrupt
                 /\ files'[CfgPath] = [doc |-> Defaults(p), bytes |-> "complete"]
                 /\ config'[p] = Defaults(p) ]_vars

\* C18 -- Every load-time failure triggers recovery: a construction that
\* rejected the config file (decode error or schema violation), read under
\* the lock or without it, does not end before _attempt_recovery has run.
EveryFailureRecovers ==
    [][ \A p \in Procs :
          (/\ op[p] = "load" /\ alive'[p]
           /\ pc[p] # "idle" /\ pc'[p] = "idle"
           /\ seen'[p] # Absent)
              => pc[p] = "l_end" ]_vars

\* C19 -- Best-effort backup: whether or not the copy to the backup path
\* succeeds, recovery goes on to validate and write the defaults, and the
\* construction raises ConfigError only when validating or writing fails.
BackupIsBestEffort ==
    [][ \A p \in Procs :
          /\ (pc[p] = "l_recover" /\ Moves(p) /\ alive'[p] /\ config[p] # {})
                => pc'[p] = "s_mkstemp"
          /\ (pc[p] = "l_end" /\ Moves(p) /\ alive'[p] /\ op'[p] = "none")
                => exc[p] \in {"ConfigValidationError", "ConfigIOError"} ]_vars

\* C20 -- Backups keep the bad bytes: whenever a recovery writes the backup
\* file, what it stores is the content that this provider read and rejected.
BackupHoldsRejectedBytes ==
    [][ \A p \in Procs :
          (pc[p] = "l_recover" /\ Moves(p) /\ files'[BackupPath] # files[BackupPath])
              => files'[BackupPath] = seen[p] ]_vars

RoundTrip ==
    [][ \A q \in Procs :
          (op[q] # "save" /\ op'[q] = "load" /\ config'[q] # config[q])
              => config'[q] = files[CfgPath].doc ]_vars

\* A state of the two-process construction model in which the acquire steps
\* left out of CtorStep would be enabled.
CtorLeftOutEnabled == \E p \in Procs : alive[p] /\ pc[p] \in {"a_rm3", "a_exc"}

\* C21 -- Recovery without defaults: a construction without defaults that
\* rejected the config file leaves the file as it is through recovery, keeps
\* the empty document in memory, and ends without raising.
RecoveryWithoutDefaults ==
    [][ \A p \in Procs :
          (/\ op[p] = "load" /\ config[p] = {} /\ seen[p] # Absent /\ alive'[p]
           /\ pc[p] \in {"l_recover", "l_end"} /\ Moves(p))
              => /\ files'[CfgPath] = files[CfgPath]
                 /\ config'[p] = {}
                 /\ pc'[p] = "idle" => op'[p] = "load" ]_vars

\* C22 -- Nothing invalid is persisted: every document a provider puts at
\* the config path (first write of the defaults, save(), recovery) satisfies
\* the schema, and so does every temp file: validation comes before mkstemp.
NothingInvalidPersisted ==
    [][ /\ files'[CfgPath] # files[CfgPath] => SchemaValid(files'[CfgPath].doc)
        /\ \A p \in Procs :
              files'[TempPath(p)] # Absent => SchemaValid(files'[TempPath(p)].doc) ]_vars

\* C22 witness: a provider constructed on defaults the schema rejects has
\* called save(), which raised ConfigValidationError; and the config file,
\* written by the other provider, is whole.
NothingInvalidPersistedWitness ==
    \E p, q \in Procs :
        /\ p # q /\ alive[p] /\ op[p] = "save" /\ pc[p] = "s_except_io"
        /\ exc[p] = "ConfigValidationError" /\ ~SchemaValid(config[p])
        /\ files[CfgPath] = [doc |-> config[q], bytes |-> "complete"]
        /\ files[TempPath(p)] = Absent

\* C23 -- In-memory schema invariant: when a construction completes, the
\* document of the provider (the file merged onto the defaults, or the
\* defaults alone) satisfies the schema.
LoadedDocumentValid ==
    [][ \A p \in Procs :
          (/\ op[p] \in {"none", "init", "load"} /\ op'[p] = "load"
           /\ pc'[p] = "idle" /\ alive'[p]
           /\ Moves(p) \/ op[p] = "none")
              => SchemaValid(config'[p]) ]_vars

\* C24 -- update(partial) is all-or-nothing: the document becomes exactly
\* deep_merge(document, partial) when that satisfies the schema; otherwise
\* update raises ConfigValidationError and the document is what it was.
\* Either way nothing on disk changes.
UpdateAllOrNothing ==
    [][ \A p \in Procs :
          DUpdate(p)
              => /\ UNCHANGED <<files, lockFs>>
                 /\ \E partial \in Updates :
                       LET merged == deep_merge(config[p], partial) IN
                       \/ /\ SchemaValid(merged)
                          /\ config'[p] = merged /\ exc'[p] = "none"
                       \/ /\ ~SchemaValid(merged)
                          /\ config'[p] = config[p]
                          /\ exc'[p] = "ConfigValidationError" ]_vars

\* C24 witness: an update() has been refused on a document that set() and
\* update() had changed before; the document is valid and is not on disk.
UpdateAllOrNothingWitness ==
    \E p \in Procs :
        /\ op[p] = "save" /\ exc[p] = "ConfigValidationError"
        /\ SchemaValid(config[p])
        /\ config[p] = {<< <<"a", "x">>, "3" >>, << <<"a", "y">>, "0" >>}
        /\ files[CfgPath].doc = Defaults(1)

\* C25 -- Last atomic rename wins: the config file changes only by the
\* rename of some save(), and a save() whose rename succeeds leaves at the
\* config path its own document, whole, whatever other save() runs beside it.
LastRenameWins ==
    [][ /\ \A p \in Procs :
              (pc[p] = "s_replace" /\ Moves(p) /\ alive'[p] /\ exc'[p] = "none")
                  => files'[CfgPath] = [doc |-> config[p], bytes |-> "complete"]
        /\ files'[CfgPath] # files[CfgPath]
              => \E p \in Procs :
                    /\ pc[p] = "s_replace" /\ Moves(p)
                    /\ files'[CfgPath] = [doc |-> config[p], bytes |-> "complete"] ]_vars

\* C25 witness: two save() calls that raced through their writes have both
\* renamed and are releasing; the file is the document of one of them.
LastRenameWinsWitness ==
    \E p, q \in Procs :
        /\ p # q /\ alive[p] /\ alive[q]
        /\ pc[p] \in ReleasePcs /\ pc[q] \in ReleasePcs
        /\ exc[p] = "none" /\ exc[q] = "none"
        /\ files[CfgPath] = [doc |-> config[p], bytes |-> "complete"]
        /\ files[TempPath(p)] = Absent /\ files[TempPath(q)] = Absent

\* The value get() is given as default in the properties below, a mapping
\* value (no leaf at the empty path), and the keys proper prefixes of key.
Missing == Scalar("default")
IsMapping(v) == \A l \in v : Len(l[1]) > 0
Prefixes(key) == {SubSeq(key, 1, n) : n \in 1..(Len(key) - 1)}
Fits(key, value) == \A l \in value : Len(key) + Len(l[1]) <= MaxDepth

\* What the document holds at key, read off its leaves: the scalar of the
\* leaf at key, or the mapping made of the leaves below key.
StoredAt(d, key) ==
    IF \E l \in d : l[1] = key /\ l[2] # "{}"
    THEN Scalar((CHOOSE l \in d : l[1] = key)[2])
    ELSE {<< SubSeq(l[1], Len(key) + 1, Len(l[1])), l[2] >> :
             l \in {x \in d : IsPrefix(key, x[1]) /\ x[1] # key}}

\* A document: one value per path, and nothing below a scalar or beside the
\* mark of an empty mapping.
WellFormed(d) ==
    \A l, m \in d : IsPrefix(l[1], m[1]) => l = m

\* C26 -- Dotted-path write/read: after set(k, v), get(k) is v, get of every
\* proper prefix of k is a mapping holding the next segment, and the keys
\* off the path of k read as they did before.
SetThenGet ==
    \A p \in Procs : \A key \in SetKeys, value \in SetValues :
        Fits(key, value) =>
            LET d  == config[p]
                d2 == set(d, key, value)
            IN /\ get(d2, key, Missing) = value
               /\ \A pre \in Prefixes(key) :
                     LET g == get(d2, pre, Missing) IN
                     /\ g # Missing /\ IsMapping(g)
                     /\ key[Len(pre) + 1] \in TopKeys(g)
               /\ \A other \in GetKeys :
                     (~IsPrefix(other, key) /\ ~IsPrefix(key, other))
                         => get(d2, other, Missing) = get(d, other, Missing)

\* C26 witness: set() has acted: the document holds a.x alone, get("a.x")
\* is its value and get("a") the mapping around it.
SetThenGetWitness ==
    \E p \in Procs :
        /\ op[p] = "save"
        /\ config[p] = {<< <<"a", "x">>, "0" >>}
        /\ get(config[p], <<"a", "x">>, Missing) = Scalar("0")
        /\ get(config[p], <<"a">>, Missing) = {<< <<"x">>, "0" >>}

\* C27 -- get(key, default) returns default when a segment of key is missing
\* or an intermediate value is not a mapping, and the stored value otherwise;
\* it never raises.
GetTotal ==
    \A p \in Procs : \A key \in GetKeys :
        LET d == config[p]
            g == get(d, key, Missing)
        IN /\ g # Scalar("KeyError")
           /\ IF \E l \in d : IsPrefix(key, l[1])
              THEN g = StoredAt(d, key)
              ELSE g = Missing

\* C27 witness: a scalar sits at "a"; get("a.x") finds a non-mapping on its
\* way and returns the default, and get("a") returns the scalar.
GetTotalWitness ==
    \E p \in Procs :
        /\ op[p] = "save"
        /\ config[p] = {<< <<"a">>, "0" >>}
        /\ get(config[p], <<"a", "x">>, Missing) = Missing
        /\ get(config[p], <<"a">>, Missing) = Scalar("0")

\* C28 -- set(key, value) never fails: the result is a document in which
\* every proper prefix of key is a mapping; a prefix that was missing or held
\* a non-mapping becomes a fresh mapping that holds the rest of key and
\* nothing else.
SetNeverFails ==
    \A p \in Procs : \A key \in SetKeys, value \in SetValues :
        Fits(key, value) =>
            LET d  == config[p]
                d2 == set(d, key, value)
            IN /\ WellFormed(d2)
               /\ \A l \in Put(key, value) : l \in d2
               /\ \A pre \in Prefixes(key) :
                     LET was == get(d, pre, Missing)
                         now == get(d2, pre, Missing)
                     IN /\ now # Missing /\ IsMapping(now)
                        /\ (was = Missing \/ ~IsMapping(was))
                              => now = Put(SubSeq(key, Len(pre) + 1, Len(key)), value)

\* C28 witness: set("a.y", ...) has gone through a scalar at "a": the
\* document holds a.y alone, in a mapping that replaced the scalar.
SetNeverFailsWitness ==
    \E p \in Procs :
        /\ op[p] = "save"
        /\ config[p] = {<< <<"a", "y">>, "bad" >>}
        /\ IsMapping(get(config[p], <<"a">>, Missing))

\* C29 -- set() is in-memory only: a set() call changes neither the config
\* file nor any other file, nor the lock file, and takes no lock.
SetInMemoryOnly ==
    [][ \A p \in Procs : DSet(p) => UNCHANGED <<files, lockFs, lockObj>> ]_vars

\* C29 witness: set() has put a value in memory that the schema rejects; the
\* config file still holds what was saved before, and there is no lock file.
SetInMemoryOnlyWitness ==
    \E p \in Procs :
        /\ op[p] = "save"
        /\ config[p] = {<< <<"a">>, "bad" >>}
        /\ files[CfgPath] = [doc |-> Defaults(1), bytes |-> "complete"]
        /\ lockPath = NoIno /\ ~is_locked[p]

\* C30 -- get_all() returns a deep snapshot: the value returned equals the
\* document at the time of the call; changing it, at any depth, changes
\* nothing of the provider; and no later set() or update() changes it.
SnapshotIsDeep ==
    [][ \A p \in Procs :
          /\ DGetAll(p) => snap'[p].doc = config[p] /\ config'[p] = config[p]
          /\ DMutate(p) => config'[p] = config[p] /\ files' = files
          /\ (DSet(p) \/ DUpdate(p)) => snap'[p].doc = snap[p].doc ]_vars

\* C30 witness: the caller holds a snapshot it has changed below the top
\* level, the provider's document has been changed by set() since, and the
\* two differ from each other and from the defaults the snapshot was taken of.
SnapshotIsDeepWitness ==
    \E p \in Procs :
        /\ snap[p].held
        /\ snap[p].doc = {<< <<"a", "x">>, "0" >>, << <<"a", "y">>, "1" >>}
        /\ config[p] = {<< <<"a", "x">>, "1" >>, << <<"a", "y">>, "bad" >>}

\* C31 -- Deep-merge idempotence: deep_merge(d, d) = d for every document d
\* (mappings, empty or nested, and non-mapping values).
MergeIdempotent ==
    /\ \A d \in MergeDocs : deep_merge(d, d) = d
    /\ \A p \in Procs : deep_merge(config[p], config[p]) = config[p]

\* C31 witness: the document is itself the result of a merge (it holds a
\* mapping no tried document has, beside an empty mapping) and merging it
\* with itself gives it back.
MergeIdempotentWitness ==
    \E p \in Procs :
        /\ op[p] = "save"
        /\ config[p] = {<< <<"a", "x">>, "1" >>, << <<"a", "y">>, "0" >>, << <<"b">>, "{}" >>}
        /\ deep_merge(config[p], config[p]) = config[p]

\* m is base with updates folded in: it has the keys of both; a key that is a
\* mapping on both sides holds the two mappings folded the same way; any
\* other key of updates holds the value of updates; a key of base alone
\* holds the value of base.
RECURSIVE MergeOf(_, _, _)
MergeOf(m, base, updates) ==
    /\ TopKeys(m) = TopKeys(base) \cup TopKeys(updates)
    /\ \A k \in TopKeys(m) :
          IF k \notin TopKeys(updates) THEN ValueAt(m, k) = ValueAt(base, k)
                                            /\ IsDict(m, k) = IsDict(base, k)
          ELSE IF k \in TopKeys(base) /\ IsDict(base, k) /\ IsDict(updates, k)
               THEN IsDict(m, k) /\ MergeOf(Sub(m, k), Sub(base, k), Sub(updates, k))
               ELSE ValueAt(m, k) = ValueAt(updates, k)
                    /\ IsDict(m, k) = IsDict(updates, k)

\* C32 -- Deep-merge semantics: deep_merge(base, updates) has the keys of
\* base and of updates; mappings on both sides are merged recursively; any
\* other key of updates wins wholesale; keys of base alone keep their value.
MergeSemantics ==
    \A p \in Procs : \A updates \in MergeDocs :
        /\ MergeOf(deep_merge(config[p], updates), config[p], updates)
        /\ WellFormed(deep_merge(config[p], updates))

\* C32 witness: update() has folded {"a": {"y": "0"}, "b": "0"} onto
\* {"a": {"x": "1"}, "b": {"x": "0"}}: a.x is kept beside the new a.y, and
\* the scalar has replaced the mapping at b.
MergeSemanticsWitness ==
    \E p \in Procs :
        /\ op[p] = "save" /\ exc[p] = "none"
        /\ config[p] = {<< <<"a", "x">>, "1" >>, << <<"a", "y">>, "0" >>, << <<"b">>, "0" >>}
        /\ config[p] = deep_merge({<< <<"a", "x">>, "1" >>, << <<"b", "x">>, "0" >>},
                                  {<< <<"a", "y">>, "0" >>, << <<"b">>, "0" >>})

\* m is what a load of the document disk makes of the defaults: the fold of
\* disk onto defaults, in which every value of disk is found at its key, and
\* every default whose key disk has nothing at, above or below, is found
\* with its default value.
LoadedFrom(m, defaults, disk) ==
    /\ MergeOf(m, defaults, disk)
    /\ \A l \in disk : l[2] # "{}" => l \in m
    /\ \A l \in defaults :
          (\A f \in disk : ~IsPrefix(f[1], l[1]) /\ ~IsPrefix(l[1], f[1])) => l \in m

\* C33 -- Defaults survive old config files: a load that succeeds, with the
\* lock or without it, leaves in memory the default_config the provider was
\* constructed with, folded under the document the file held when it was
\* read: default keys the file lacks keep their default value, keys of the
\* file have the file's value.
DefaultsSurvive ==
    [][ \A p \in Procs :
          /\ (LRead(p) /\ exc'[p] = "none")
                => /\ config[p] \in DefaultDocs(p)
                   /\ LoadedFrom(config'[p], config[p], files[CfgPath].doc)
          /\ (LFallback(p) /\ config'[p] # config[p])
                => /\ config[p] \in DefaultDocs(p)
                   /\ LoadedFrom(config'[p], config[p], files[CfgPath].doc) ]_vars

\* C33 witness: a provider constructed with defaults a.x, a.y on a file that
\* holds a.x alone has loaded: a.x has the file's value, a.y its default.
DefaultsSurviveWitness ==
    \E p \in Procs :
        /\ alive[p] /\ pc[p] = "idle" /\ op[p] = "load"
        /\ files[CfgPath] = [doc |-> D0, bytes |-> "complete"]
        /\ config[p] = {<< <<"a", "x">>, "0" >>, << <<"a", "y">>, Tok[p] >>}

\* An OS error is raised while q examines the lock file at the path: the
\* file is old enough to be opened and q may not read it, or the probe of
\* the recorded pid is refused.
ProbeRaises(q) ==
    /\ lockPath # NoIno
    /\ inode[lockPath].age > StaleTimeout
    /\ \/ ~CanRead(q, lockPath)
       \/ /\ PidIsDigit(inode[lockPath].body)
          /\ Kill0(q, OldPid(inode[lockPath].body)) = "EPERM"

\* C34 -- Errors while probing are fail-safe: when an OS error occurs while
\* a competitor examines an existing lock file, the competitor takes the
\* lock for held (it sleeps and polls again) and the file stays.
ProbeErrorsFailSafe ==
    [][ \A q \in Procs :
          (pc[q] \in {"a_stale1", "a_stale2"} /\ Moves(q) /\ alive'[q] /\ ProbeRaises(q))
              => /\ pc'[q] = "a_sleep"
                 /\ lockPath' = lockPath ]_vars

\* p's os.replace succeeds in this step: the content at the config path is
\* replaced by p's temp file.
Replaces(p) ==
    /\ pc[p] = "s_replace" /\ Moves(p) /\ alive'[p]
    /\ exc'[p] = "none"

\* C35 -- Every write to the config file happens under the lock: a process
\* that replaces the content at the config path (the default file of
\* __init__, save(), the self-heal of recovery) holds the lock.
EveryWriteLocked ==
    [][ \A p \in Procs : Replaces(p) => is_locked[p] ]_vars

\* C36 -- Recovery does not destroy valid data: the self-heal of a load
\* that rejected the config file replaces the file only while it still
\* holds the content that was rejected.
RecoveryKeepsNewerFile ==
    [][ \A p \in Procs :
          (Replaces(p) /\ op[p] = "load") => files[CfgPath] = seen[p] ]_vars

\* C37 -- release() by a non-holder has no effect: a release() on a FileLock
\* whose is_locked is false (never acquired, acquire() returned False, or
\* already released) leaves the file at the lock path, whoever it belongs
\* to, the lock object and every other file as they were, and raises nothing.
NonHolderReleaseNoEffect ==
    [][ \A p \in Procs :
          (ReleaseNotHeld(p) \/ (Release(p) /\ ~is_locked[p]))
              => UNCHANGED <<lockPath, inode, is_locked, lock_file, fd, exc, files, config>> ]_vars

\* C37 witness: p, which has made no acquire(), has called release() while
\* q holds the lock; q's lock file is at the lock path, flocked by q.
NonHolderReleaseNoEffectWitness ==
    \E p, q \in Procs :
        /\ p # q /\ alive[p] /\ pc[p] = "released" /\ ~is_locked[p]
        /\ calls = 1
        /\ Holds(q) /\ pc[q] = "held" /\ lockPath = lock_file[q]
        /\ inode[lockPath].body = <<q, uid[q]>> /\ inode[lockPath].flock = q

\* C38 -- save() never changes the in-memory document: from the call of
\* save() to its return or its ConfigLockError, ConfigValidationError or
\* ConfigIOError, get_all() gives what it gave before.
SaveKeepsDocument ==
    [][ \A p \in Procs :
          (op'[p] = "save" /\ alive'[p]) => get_all(config'[p]) = get_all(config[p]) ]_vars

\* C38 witness: a save() of a document the schema rejects has failed with
\* ConfigValidationError and is in the handler of save(); the rejected
\* document is still in memory, and is not what the config file holds.
SaveKeepsDocumentWitness ==
    \E p \in Procs :
        /\ alive[p] /\ op[p] = "save" /\ pc[p] = "s_except_io"
        /\ exc[p] = "ConfigValidationError"
        /\ config[p] = deep_merge(DocOf[p], BadDoc)
        /\ files[CfgPath].doc # config[p]

====
